---- MODULE Spec2Model ----
(***************************************************************************)
(* go-resilience-mock: the scenario engine behind the request dispatcher. *)
(*                                                                         *)
(* One scenario (pkg/config Scenario) serves up to NumWorkers requests at  *)
(* a time.  Each request runs faults.HandleScenario; the model has one     *)
(* action per shared-state access of that handler:                         *)
(*   Start        lookup + matchesRequest (echo fallback when no match)    *)
(*   CheckBreaker checkCircuitBreaker under CBState.Mutex                  *)
(*   LoadIndex    atomic.LoadInt32(&scenario.Index)                        *)
(*   StoreIndex   atomic.StoreInt32(&scenario.Index, nextIdx), followed by *)
(*                the probability check and the code up to the next point  *)
(*                where the handler waits or touches the breaker           *)
(*   Wake         end of time.Sleep, likewise                              *)
(*   Update       updateCircuitBreaker under CBState.Mutex, then the body  *)
(*   FallUpdate   updateCircuitBreaker(scenario, true) after echo fallback *)
(* The code between two such points touches only the handler's locals and  *)
(* the fault counters (which no handler reads), so it runs in the action   *)
(* of the point before it.                                                 *)
(* Time is a discrete clock advanced by Tick; durations are clock units.   *)
(* Probabilities are in tenths (ProbabilityOne is 1.0).                    *)
(***************************************************************************)
EXTENDS Integers, Sequences, FiniteSets, Bags, TLC

\* ---------------------------------------------------------------- bounds
NumWorkers == 2
MaxRequests == 4
MaxFailureThreshold == 2
MaxSuccessThreshold == 2
MaxTimeout == 1

\* ------------------------------------------------------ program constants
ProbabilityOne == 10
StatusServiceUnavailable == 503
StatusInternalServerError == 500
StatusOK == 200

\* time.Time{} of a breaker that never made a transition: far in the past
ZeroTime == 0 - (MaxTimeout + 1)

\* ------------------------------------------------------------- responses
\* config.Response: Status, Delay, Probability and whether the Body is a
\* template ("plain": no "{{"; "tmpl": renders; "bad": fails to parse/execute)
Resp(st, d, p, b) == [Status |-> st, Delay |-> d, Probability |-> p, Body |-> b]

R200 == Resp(200, 0, 0, "plain")
R404 == Resp(404, 0, 0, "plain")
R500 == Resp(500, 0, 0, "plain")
R200Bad == Resp(200, 0, 0, "bad")
R200Delay == Resp(200, 1, 0, "tmpl")
R500Half == Resp(500, 0, 5, "plain")
R500Sure == Resp(500, 0, ProbabilityOne, "plain")

ResponseLists ==
    { <<R500>>, <<R500, R200>>, <<R200Bad>>, <<R500Half>>,
      <<R200Delay, R500Sure>>, <<R500, R404, R200>> }

\* config.CircuitBreakerConfig; the thresholds and the timeout of a breaker
\* that is not armed (FailureThreshold = 0) are never read
BreakerConfigs ==
    { c \in [FailureThreshold : 0..MaxFailureThreshold,
             SuccessThreshold : 0..MaxSuccessThreshold,
             Timeout : 1..MaxTimeout] :
        c.FailureThreshold = 0 => (c.SuccessThreshold = 0 /\ c.Timeout = 1) }

\* values of mrand.Float64() in tenths: below, at and above one half
Draws == {0, ProbabilityOne \div 2, ProbabilityOne - 1}

\* statuses HandleEcho can answer with (200, or X-Echo-Status / global chaos)
EchoStatuses == {StatusOK, StatusInternalServerError}

VARIABLES
    scenario,   \* the registered scenario: Responses, CircuitBreaker
    cbState,    \* scenario.CBState
    index,      \* scenario.Index
    now,        \* the clock
    inflight,   \* the requests being served: a bag of handler locals
    faults,     \* observability.FaultsInjected, by type label
    started,    \* number of requests started so far
    lastReply,  \* the request answered most recently, as it ended
    ghost       \* history variables used by the properties only

engineVars ==
    <<scenario, cbState, index, now, inflight, faults, started, lastReply, ghost>>

\* The router in front of the handler (RouterSpec below) and the middleware
\* pipeline around it (PipelineSpec below) have their own state; Spec leaves
\* it alone.
VARIABLES
    scenarios,      \* config.scenarios: registry key -> list of scenarios
    lastRouted      \* the request the router answered last, and the answer

routerVars == <<scenarios, lastRouted>>

\* an empty map[string]string
NoVars == [k \in {} |-> <<>>]

\* the registry is empty and no request was routed
NotRouted ==
    [req |-> [Method |-> "", Path |-> <<>>, Headers |-> NoVars,
              Query |-> NoVars, Body |-> <<>>],
     status |-> 0, key |-> <<>>, pos |-> 0, vars |-> NoVars]
RouterIdle ==
    /\ scenarios = [k \in {} |-> <<>>]
    /\ lastRouted = NotRouted

VARIABLES
    cfg,            \* config.Config: HistorySize
    RequestCounter, \* config.RequestCounter
    RequestHistory, \* config.RequestHistory
    pending,        \* the requests inside the middleware pipeline
    lastResponse,   \* the response sent last
    trail           \* history variables: what completed, and when

pipelineVars ==
    <<cfg, RequestCounter, RequestHistory, pending, lastResponse, trail>>

\* no request has entered the pipeline
NoResponse == [xid |-> <<>>, id |-> <<>>, path |-> "", header |-> <<>>, status |-> 0]
NoTrail == [recent |-> <<>>, numCompleted |-> 0, sinceReset |-> 0]
PipelineIdle ==
    /\ cfg = [HistorySize |-> 1]
    /\ RequestCounter = 0
    /\ RequestHistory = <<>>
    /\ pending = EmptyBag
    /\ lastResponse = NoResponse
    /\ trail = NoTrail

\* The registry as concurrent POST /scenario requests and a reader see it
\* (RegistrySpec below) keeps the lists by reference.
NumPosts == 2

VARIABLES
    store,          \* config.scenarios by reference: key -> address of its list
    lists,          \* the heap of lists: address -> list of scenarios
    configLock,     \* config.configLock: the request holding it, 0 when free
    adds,           \* the POST /scenario requests: position and locals
    snapshot,       \* the list a reader loaded last
    added           \* history variable: the scenarios stored so far

registryVars == <<store, lists, configLock, adds, snapshot, added>>

\* a request that has not arrived; Status is the status of its reply
NoAdd ==
    [pc |-> "idle", json |-> [type |-> "null"], body |-> <<>>, i |-> 0,
     old |-> 0, Status |-> 0]
NoSnapshot == [key |-> <<>>, addr |-> 0, seen |-> <<>>]
RegistryIdle ==
    /\ store = [k \in {} |-> 0]
    /\ lists = <<>>
    /\ configLock = 0
    /\ adds = [h \in 1..NumPosts |-> NoAdd]
    /\ snapshot = NoSnapshot
    /\ added = {}

\* The rate limiter of the middleware chain with CORS and rate limiting
\* (GateSpec below).
MaxRate == 2

VARIABLES
    tokens          \* the tokens in the bucket of config.rateLimiter

gateVars == <<tokens>>
GateIdle == tokens = 0

\* The three locks as the requests of every kind take them (LockSpec below):
\* configLock above, the history mutex and the breaker mutex of the scenario.
MaxCalls == 3

VARIABLES
    HistoryMutex,   \* config.HistoryMutex: the request holding it, 0 when free
    cbMutex,        \* scenario.CBState.Mutex, likewise
    calls           \* the requests: kind, position, locals (upstream: what
                    \* became of the upstream request of /replay; record:
                    \* the path of the record /replay found; child: the
                    \* request this server serves for a /replay to itself)

lockVars == <<HistoryMutex, cbMutex, calls>>

\* a request that has not arrived
NoCall ==
    [kind |-> "", pc |-> "new", arg |-> [parses |-> FALSE, id |-> 0],
     snap |-> [State |-> ""], success |-> FALSE, old |-> 0,
     upstream |-> "none", Status |-> 0, record |-> "", child |-> 0]
LockIdle ==
    /\ HistoryMutex = 0
    /\ cbMutex = 0
    /\ calls = [c \in 1..MaxCalls |-> NoCall]

restVars == <<registryVars, gateVars, lockVars>>
RestIdle == RegistryIdle /\ GateIdle /\ LockIdle

\* what the actions of RegistrySpec, of GateSpec and of LockSpec leave alone
registryFrame == <<engineVars, routerVars, pipelineVars, gateVars, lockVars>>
gateFrame == <<scenario, inflight, faults, started, lastReply, ghost,
               routerVars, registryVars, lockVars>>
lockFrame == <<scenario, now, inflight, faults, started, lastReply,
               routerVars, cfg, RequestCounter, pending, lastResponse, trail,
               adds, snapshot, added, gateVars>>

outside == <<routerVars, pipelineVars, restVars>>

vars == <<engineVars, routerVars, pipelineVars, restVars>>

\* ------------------------------------------------------- circuit breaker
Armed == scenario.CircuitBreaker.FailureThreshold > 0

\* time.Since(LastTransition) > Timeout
TimedOutEarly(c, cb, t) == t - c.LastTransition >= cb.Timeout
TimedOut(c, cb, t) == t - c.LastTransition > cb.Timeout

\* open -> half-open: State and LastTransition
HalfOpenedNoStamp(c, t) == [c EXCEPT !.State = "half-open"]
HalfOpened(c, t) == [c EXCEPT !.State = "half-open", !.LastTransition = t]

\* checkCircuitBreaker: the breaker after the check, and whether the request
\* is allowed
checkCircuitBreaker(c, cb, t) ==
    IF c.State = "open"
    THEN IF TimedOut(c, cb, t)
         THEN [cb |-> HalfOpened(c, t), allowed |-> TRUE]
         ELSE [cb |-> c, allowed |-> FALSE]
    ELSE [cb |-> c, allowed |-> TRUE]

\* Successes >= SuccessThreshold, Failures >= FailureThreshold
ThresholdExceeded(n, threshold) == n > threshold
ThresholdReached(n, threshold) == n >= threshold

\* half-open -> closed: the counters are reset
Closed(c, t) ==
    [c EXCEPT !.State = "closed", !.Failures = 0, !.Successes = 0,
              !.LastTransition = t]

\* half-open -> open
ReopenedNoStamp(c, t) == [c EXCEPT !.State = "open"]
ReopenedCleared(c, t) ==
    [c EXCEPT !.State = "open", !.Failures = 0, !.LastTransition = t]
Reopened(c, t) == [c EXCEPT !.State = "open", !.LastTransition = t]

\* updateCircuitBreaker: the breaker after an outcome was reported
updateCircuitBreaker(c, cb, success, t) ==
    IF c.State = "open" THEN c
    ELSE IF c.State = "half-open"
    THEN IF success
         THEN LET c1 == [c EXCEPT !.Successes = c.Successes + 1]
              IN IF ThresholdReached(c1.Successes, cb.SuccessThreshold)
                 THEN Closed(c1, t) ELSE c1
         ELSE Reopened(c, t)
    ELSE IF ~success
         THEN LET c1 == [c EXCEPT !.Failures = c.Failures + 1, !.LastFailure = t]
              IN IF ThresholdReached(c1.Failures, cb.FailureThreshold)
                 THEN [c1 EXCEPT !.State = "open", !.LastTransition = t]
                 ELSE c1
         ELSE [c EXCEPT !.Failures = 0]

\* ------------------------------------------------------ response selector
NextIdxSkipping(idx, len) == (idx + 2) % len
NextIdxStuck(idx, len) == idx % len
NextIdx(idx, len) == (idx + 1) % len

\* the probability gate is consulted for this response
GatedFromZero(p) == p >= 0 /\ p < ProbabilityOne
Gated(p) == p > 0 /\ p < ProbabilityOne

\* isFailure of HandleScenario
IsFailureFrom400(status) == status >= 400
IsFailure(status) == status >= 500

\* the http_error fault counter is incremented for this status
IsHTTPError(status) == status >= 400

\* ------------------------------------------------------------------ state
NumResponses == Len(scenario.Responses)

\* the response a request selected (scenario.Responses[idx])
Selected(r) == scenario.Responses[r.idx + 1]

\* handler locals of a request that has not run yet (admitted is a history
\* field, kept when ghost.periods says so: the state the armed breaker was in
\* when the check let the request pass, until the request has reported its
\* outcome)
NewRequest ==
    [pc |-> "idle", idx |-> -1, draw |-> -1, wake |-> 0,
     shortCircuited |-> FALSE, fellThrough |-> FALSE, applied |-> FALSE,
     isFailure |-> FALSE, recorded |-> "none", status |-> 0,
     admitted |-> ""]

\* &CircuitBreakerState{State: "closed"}
NewCBState ==
    [State |-> "closed", Failures |-> 0, Successes |-> 0,
     LastFailure |-> ZeroTime, LastTransition |-> ZeroTime]

NewGhost ==
    [streak |-> 0, tripAt |-> ZeroTime, reopenAt |-> ZeroTime,
     hoStreak |-> 0, raced |-> FALSE, periods |-> FALSE,
     selected |-> [k \in 1..NumResponses |-> 0]]

Init ==
    /\ scenario \in [Responses : ResponseLists, CircuitBreaker : BreakerConfigs]
    /\ cbState = NewCBState
    /\ index = 0
    /\ now = 0
    /\ inflight = EmptyBag
    /\ faults = [delay |-> 0, http_error |-> 0]
    /\ started = 0
    /\ lastReply = NewRequest
    /\ ghost = NewGhost
    /\ RouterIdle
    /\ PipelineIdle
    /\ RestIdle

\* the requests in flight, and those at a given point of the handler
Requests == BagToSet(inflight)
At(pc) == { r \in Requests : r.pc = pc }

\* ---------------------------------------------------------------- ghosts
\* The history variables after an outcome was reported to a breaker in state
\* c at time t.  They follow the events, not the breaker's own counters:
\* streak is the number of failures reported in a row to the closed breaker,
\* tripAt the time the streak reached the threshold, reopenAt the time a
\* failure was reported to the half-open breaker, hoStreak the number of
\* successes reported since the breaker last became half-open.
GhostAfterUpdate(g, c, success, t) ==
    LET ft == scenario.CircuitBreaker.FailureThreshold
        streak2 == IF c.State = "closed"
                   THEN (IF success THEN 0 ELSE g.streak + 1)
                   ELSE g.streak
    IN [g EXCEPT
          !.streak = IF c.State = "half-open" /\ success THEN 0 ELSE streak2,
          !.tripAt = IF c.State = "closed" /\ ~success /\ streak2 >= ft
                     THEN t ELSE g.tripAt,
          !.reopenAt = IF c.State = "half-open" /\ ~success THEN t ELSE g.reopenAt,
          !.hoStreak = IF c.State = "half-open"
                       THEN (IF success THEN g.hoStreak + 1 ELSE 0)
                       ELSE g.hoStreak]

\* a time stamp more than Timeout ago says nothing any more
Expire(stamp, t) ==
    IF t - stamp > scenario.CircuitBreaker.Timeout THEN ZeroTime ELSE stamp

\* ------------------------------------------------- the handler's local code
\* headers, body template, status line and body: the request is answered
Rendered(r) ==
    LET resp == Selected(r)
    IN [r EXCEPT !.pc = "done", !.admitted = "",
                 !.applied = resp.Body # "bad",
                 !.status = IF resp.Body = "bad" THEN StatusInternalServerError
                            ELSE resp.Status]

\* after the delay: isFailure, the http_error fault counter, and on to the
\* breaker update (armed) or to the body; r the request, f the fault counters
AfterDelay(r, f) ==
    LET st == Selected(r).Status
        r1 == [r EXCEPT !.isFailure = IsFailure(st), !.wake = 0]
    IN [r |-> IF Armed THEN [r1 EXCEPT !.pc = "update"] ELSE Rendered(r1),
        f |-> IF IsHTTPError(st) THEN [f EXCEPT !.http_error = @ + 1] ELSE f]

\* the response is applied: the delay fault is counted and the handler sleeps
ApplyResponseUncounted(r, f, t) ==
    LET d == Selected(r).Delay
    IN IF d > 0
       THEN [r |-> [r EXCEPT !.pc = "sleep", !.wake = t + d], f |-> f]
       ELSE AfterDelay(r, f)
ApplyResponse(r, f, t) ==
    LET d == Selected(r).Delay
    IN IF d > 0
       THEN [r |-> [r EXCEPT !.pc = "sleep", !.wake = t + d],
             f |-> [f EXCEPT !.delay = @ + 1]]
       ELSE AfterDelay(r, f)

\* --------------------------------------------------------------- actions
\* the handler of request r goes on with locals r2; a handler that has
\* returned leaves its reply in lastReply
Continue(r, r2) ==
    IF r2.pc = "done"
    THEN /\ inflight' = inflight (-) SetToBag({r})
         /\ lastReply' = r2
    ELSE /\ inflight' = (inflight (-) SetToBag({r})) (+) SetToBag({r2})
         /\ lastReply' = lastReply

\* HandleScenario up to the matcher: a request of a client arrives; when no
\* scenario of the key matches it, HandleEcho answers
Start ==
    /\ BagCardinality(inflight) < NumWorkers
    /\ started < MaxRequests
    /\ started' = started + 1
    /\ \E matched \in BOOLEAN :
         IF matched
         THEN /\ inflight' = inflight (+) SetToBag({[NewRequest EXCEPT !.pc = "check"]})
              /\ lastReply' = lastReply
         ELSE /\ \E st \in EchoStatuses :
                   lastReply' = [NewRequest EXCEPT !.pc = "done", !.status = st]
              /\ inflight' = inflight
    /\ UNCHANGED <<scenario, cbState, index, now, faults, ghost>>
    /\ UNCHANGED outside

\* the circuit breaker check; a refused request is answered 503 and returns
CheckBreaker(r) ==
    /\ r.pc = "check"
    /\ IF Armed
       THEN LET c == checkCircuitBreaker(cbState, scenario.CircuitBreaker, now)
            IN /\ cbState' = c.cb
               /\ ghost' = IF c.cb.State = "half-open" /\ cbState.State # "half-open"
                           THEN [ghost EXCEPT !.hoStreak = 0] ELSE ghost
               /\ IF c.allowed
                  THEN Continue(r, [r EXCEPT !.pc = "load",
                                             !.admitted = IF ghost.periods
                                                          THEN c.cb.State
                                                          ELSE ""])
                  ELSE Continue(r, [r EXCEPT !.pc = "done",
                                             !.shortCircuited = TRUE,
                                             !.status = StatusServiceUnavailable])
       ELSE /\ Continue(r, [r EXCEPT !.pc = "load"])
            /\ UNCHANGED <<cbState, ghost>>
    /\ UNCHANGED <<scenario, index, now, faults, started>>
    /\ UNCHANGED outside

\* idx := atomic load of the cursor; response := scenario.Responses[idx]
LoadIndex(r) ==
    /\ r.pc = "load"
    /\ Continue(r, [r EXCEPT !.pc = "store", !.idx = index])
    /\ ghost' = [ghost EXCEPT !.selected[index + 1] = @ + 1,
                              !.raced = @ \/ At("store") # {}]
    /\ UNCHANGED <<scenario, cbState, index, now, faults, started>>
    /\ UNCHANGED outside

\* atomic store of the wrapped successor of the index that was loaded, then
\* the probability check: on a miss HandleEcho answers, else the response is
\* applied
StoreIndex(r) ==
    /\ r.pc = "store"
    /\ index' = NextIdx(r.idx, NumResponses)
    /\ LET p == Selected(r).Probability
       IN IF Gated(p)
          THEN \E draw \in Draws :
                 IF draw > p
                 THEN /\ \E st \in EchoStatuses :
                           Continue(r, [r EXCEPT !.pc = "fallupd", !.draw = draw,
                                                 !.fellThrough = TRUE,
                                                 !.status = st])
                      /\ faults' = faults
                 ELSE LET a == ApplyResponse([r EXCEPT !.draw = draw], faults, now)
                      IN Continue(r, a.r) /\ faults' = a.f
          ELSE LET a == ApplyResponse(r, faults, now)
               IN Continue(r, a.r) /\ faults' = a.f
    /\ UNCHANGED <<scenario, cbState, now, started, ghost>>
    /\ UNCHANGED outside

\* updateCircuitBreaker(scenario, true) after the echo fallback
FallUpdate(r) ==
    /\ r.pc = "fallupd"
    /\ cbState' = updateCircuitBreaker(cbState, scenario.CircuitBreaker, TRUE, now)
    /\ ghost' = GhostAfterUpdate(ghost, cbState, TRUE, now)
    /\ Continue(r, [r EXCEPT !.pc = "done", !.recorded = "success",
                              !.admitted = ""])
    /\ UNCHANGED <<scenario, index, now, faults, started>>
    /\ UNCHANGED outside

\* time.Sleep(response.Delay) is over
Wake(r) ==
    /\ r.pc = "sleep"
    /\ now >= r.wake
    /\ LET a == AfterDelay(r, faults)
       IN Continue(r, a.r) /\ faults' = a.f
    /\ UNCHANGED <<scenario, cbState, index, now, started, ghost>>
    /\ UNCHANGED outside

\* updateCircuitBreaker(scenario, !isFailure) of an armed breaker, then the body
Update(r) ==
    /\ r.pc = "update"
    /\ cbState' = updateCircuitBreaker(cbState, scenario.CircuitBreaker,
                                       ~r.isFailure, now)
    /\ ghost' = GhostAfterUpdate(ghost, cbState, ~r.isFailure, now)
    /\ Continue(r, Rendered([r EXCEPT !.recorded = IF r.isFailure THEN "failure"
                                                   ELSE "success"]))
    /\ UNCHANGED <<scenario, index, now, faults, started>>
    /\ UNCHANGED outside

\* Only elapsed time is ever read: by checkCircuitBreaker of an open breaker
\* (time.Since(LastTransition) against Timeout) and by a sleeping handler, so
\* the clock is advanced only while one of the two can still tell.
TimeMatters ==
    \/ /\ cbState.State = "open"
       /\ now - cbState.LastTransition <= scenario.CircuitBreaker.Timeout
    \/ \E r \in At("sleep") : r.wake > now

Tick ==
    /\ TimeMatters
    /\ now' = now + 1
    /\ ghost' = [ghost EXCEPT !.tripAt = Expire(@, now + 1),
                              !.reopenAt = Expire(@, now + 1)]
    /\ UNCHANGED <<scenario, cbState, index, inflight, faults, started, lastReply>>
    /\ UNCHANGED outside

Next ==
    \/ Start
    \/ \E r \in Requests :
         \/ CheckBreaker(r)
         \/ LoadIndex(r)
         \/ StoreIndex(r)
         \/ FallUpdate(r)
         \/ Wake(r)
         \/ Update(r)
    \/ Tick

Spec == Init /\ [][Next]_vars

\* ------------------------------------------------------------ properties
FailureThreshold == scenario.CircuitBreaker.FailureThreshold
SuccessThreshold == scenario.CircuitBreaker.SuccessThreshold
Timeout == scenario.CircuitBreaker.Timeout

\* every handler's locals, those of the one that returned last included
Results == Requests \cup {lastReply}

\* this step is a step of the handler with locals r, which leaves it at
\* another point with locals r2
Step(r, r2) == r \in Requests /\ r2.pc # r.pc /\ Continue(r, r2)

\* the reply is the breaker's 503: no response was selected
Refused(r2) ==
    /\ r2.pc = "done"
    /\ r2.shortCircuited
    /\ r2.status = StatusServiceUnavailable
    /\ r2.idx = -1

\* C1: once FailureThreshold failures in a row were reported to the closed
\* breaker it is open, and a request that reaches the breaker check within
\* Timeout of that moment is answered 503, selects no response and leaves
\* the cursor alone.
C1_TripThenRefuse ==
    [][/\ (Armed /\ ghost.streak < FailureThreshold
                 /\ ghost'.streak >= FailureThreshold)
          => cbState'.State = "open"
       /\ \A r \in At("check") : \A r2 \in Results' :
            (Step(r, r2) /\ Armed /\ now - ghost.tripAt <= Timeout)
            => (Refused(r2) /\ index' = index /\ ghost'.selected = ghost.selected)
      ]_vars

C1_Witness ==
    /\ FailureThreshold = 2
    /\ ghost.streak = 2
    /\ now - ghost.tripAt <= Timeout
    /\ Refused(lastReply)

\* C2: the breaker check answers 503 exactly when the breaker is armed, open
\* and at most Timeout has passed since LastTransition; no other step of a
\* handler produces the breaker's 503.
C2_ShortCircuitIff ==
    /\ [](\A r \in Results : r.shortCircuited => Refused(r))
    /\ [][\A r \in At("check") : \A r2 \in Results' :
            Step(r, r2)
            => (r2.shortCircuited
                  <=> (/\ Armed
                       /\ cbState.State = "open"
                       /\ now - cbState.LastTransition <= Timeout))
         ]_vars

C2_Witness ==
    /\ Refused(lastReply)
    /\ cbState.State = "open"
    /\ now - cbState.LastTransition = Timeout

C4_HalfOpenAfterTimeout ==
    [][\A r \in At("check") : \A r2 \in Results' :
         (/\ Step(r, r2)
          /\ Armed
          /\ cbState.State = "open"
          /\ now - cbState.LastTransition > Timeout)
         => (/\ cbState'.State = "half-open"
             /\ cbState'.LastTransition = now
             /\ r2.pc = "load"
             /\ ~r2.shortCircuited)
      ]_vars

C4_Witness ==
    /\ cbState.State = "half-open"
    /\ cbState.LastTransition = now
    /\ now > Timeout
    /\ At("load") # {}

\* C5: when the success reported to a half-open breaker is at least the
\* SuccessThreshold-th since the breaker became half-open, the breaker is
\* closed and Failures and Successes are 0.
C5_CloseAfterSuccesses ==
    [][(/\ cbState.State = "half-open"
        /\ ghost'.hoStreak = ghost.hoStreak + 1
        /\ ghost'.hoStreak >= SuccessThreshold)
       => (/\ cbState'.State = "closed"
           /\ cbState'.Failures = 0
           /\ cbState'.Successes = 0)
      ]_vars

C5_Witness ==
    /\ SuccessThreshold = 2
    /\ ghost.hoStreak = 2
    /\ cbState.State = "closed"
    /\ cbState.Failures = 0
    /\ lastReply.recorded = "success"

\* C6: a failure reported to a half-open breaker makes it open with
\* LastTransition the current time, and a request that reaches the breaker
\* check within Timeout of that moment is answered 503.
C6_ReopenThenRefuse ==
    [][/\ \A r \in At("update") : \A r2 \in Results' :
            (Step(r, r2) /\ r.isFailure /\ cbState.State = "half-open")
            => (cbState'.State = "open" /\ cbState'.LastTransition = now)
       /\ \A r \in At("check") : \A r2 \in Results' :
            (Step(r, r2) /\ Armed /\ now - ghost.reopenAt <= Timeout)
            => Refused(r2)
      ]_vars

C6_Witness ==
    /\ now - ghost.reopenAt <= Timeout
    /\ cbState.State = "open"
    /\ Refused(lastReply)

\* C7: for a request that went through the check of an armed breaker and
\* was answered from its scenario response, the outcome reported to the
\* breaker is a failure exactly when the status sent is >= 500, the 500 of a
\* body template that fails included.
C7_FailureIffStatus5xx ==
    (/\ Armed
     /\ lastReply.pc = "done"
     /\ lastReply.idx >= 0
     /\ ~lastReply.fellThrough)
    => (lastReply.recorded = "failure" <=> lastReply.status >= 500)

\* C8: applying a response with status 400..499 adds one to the http_error
\* fault counter and reports a success to the breaker: Failures does not
\* grow, and a closed breaker has Failures = 0 afterwards.
Is4xx(r) == Selected(r).Status >= 400 /\ Selected(r).Status < 500

C8_ClientErrorIsSuccess ==
    [][/\ \A r \in At("store") \cup At("sleep") : \A r2 \in Results' :
            (Step(r, r2) /\ r2.pc \in {"update", "done"} /\ ~r2.fellThrough
               /\ Is4xx(r))
            => (faults'.http_error = faults.http_error + 1 /\ ~r2.isFailure)
       /\ \A r \in At("update") : \A r2 \in Results' :
            (Step(r, r2) /\ Is4xx(r))
            => (/\ r2.recorded = "success"
                /\ cbState'.Failures <= cbState.Failures
                /\ cbState.State = "closed" => cbState'.Failures = 0)
      ]_vars

C8_Witness ==
    /\ Armed
    /\ lastReply.status = 404
    /\ lastReply.recorded = "success"
    /\ faults.http_error >= 2
    /\ cbState.LastFailure # ZeroTime
    /\ cbState.State = "closed"
    /\ cbState.Failures = 0

\* C9: the request falls through to HandleEcho exactly when the selected
\* response has 0 < Probability < 1 and the draw exceeds it; then nothing of
\* the response is applied (no fault is counted, the status is the echo's)
\* and a success is reported to the breaker.
C9_ProbabilityGate ==
    [][/\ \A r \in At("store") : \A r2 \in Results' :
            Step(r, r2)
            => LET p == Selected(r).Probability
               IN /\ r2.fellThrough <=> (p > 0 /\ p < ProbabilityOne /\ r2.draw > p)
                  /\ r2.fellThrough
                       => (/\ r2.pc = "fallupd"
                           /\ r2.status \in EchoStatuses
                           /\ faults' = faults)
       /\ \A r \in At("fallupd") : \A r2 \in Results' :
            Step(r, r2)
            => (/\ r2.pc = "done"
                /\ ~r2.applied
                /\ r2.status = r.status
                /\ r2.recorded = "success"
                /\ faults' = faults
                /\ cbState'.Failures <= cbState.Failures
                /\ cbState.State = "closed" => cbState'.Failures = 0)
      ]_vars

C9_Witness ==
    /\ lastReply.pc = "done"
    /\ lastReply.fellThrough
    /\ lastReply.draw > Selected(lastReply).Probability
    /\ lastReply.recorded = "success"
    /\ ~lastReply.applied

\* C10: cursor rotation.  The number of requests that selected a response,
\* and the scenario has no response behind the probability gate
RECURSIVE SumTo(_, _)
SumTo(f, n) == IF n = 0 THEN 0 ELSE f[n] + SumTo(f, n - 1)

NumSelected == SumTo(ghost.selected, NumResponses)

NoGate == \A k \in 1..NumResponses : ~Gated(scenario.Responses[k].Probability)

Rotation ==
    \A k \in 1..NumResponses : ghost.selected[k] >= NumSelected \div NumResponses

SelectsInOrder(r2) == r2.idx = NumSelected % NumResponses

\* C11 as claimed: as long as no request overlapped another's load and store
\* of the cursor (requests served one after another never do), the i-th
\* admitted request selects responses[i mod len] and is served it.
C11_SequentialServedInOrder ==
    [][/\ \A r \in At("load") : \A r2 \in Results' :
            (Step(r, r2) /\ ~ghost'.raced) => SelectsInOrder(r2)
       /\ \A r \in At("store") : \A r2 \in Results' :
            (Step(r, r2) /\ ~ghost.raced) => ~r2.fellThrough
      ]_vars

\* C11 as amended: the i-th admitted request selects responses[i mod len]
\* and is served it unless that response is behind the probability gate and
\* the draw sends the request to HandleEcho; the cursor moves on all the same.
C11_SequentialSelectedInOrder ==
    [][/\ \A r \in At("load") : \A r2 \in Results' :
            (Step(r, r2) /\ ~ghost'.raced) => SelectsInOrder(r2)
       /\ \A r \in At("store") : \A r2 \in Results' :
            (Step(r, r2) /\ ~ghost.raced)
            => /\ r2.idx = r.idx
               /\ index' = NumSelected % NumResponses
               /\ r2.fellThrough
                    => (Gated(Selected(r).Probability)
                        /\ r2.draw > Selected(r).Probability)
      ]_vars

C11_Witness ==
    /\ ~ghost.raced
    /\ inflight = EmptyBag
    /\ NumResponses = 3
    /\ NumSelected = 4
    /\ lastReply.pc = "done"
    /\ lastReply.idx = 0
    /\ lastReply.applied
    /\ index = 1

\* ======================================================================
\* The router: the scenario registry (pkg/config), the catch-all route of
\* server.NewRouter with its exact and template look-ups, matchPath, and the
\* request matcher of faults.HandleScenario.  The router is built from an
\* empty scenario file, so every scenario is added by POST /scenario and
\* every request for one reaches the catch-all route.  Requests are served
\* one at a time here.
\*
\* A string is a sequence of tokens: "/", "_", and words that contain
\* neither ("{id}" is the one word with braces).
\* ======================================================================
MaxScenarios == 2

StatusNotFound == 404

PA == <<"/", "a">>
PASlash == <<"/", "a", "/">>
PA42 == <<"/", "a", "/", "42">>
PA42Slash == <<"/", "a", "/", "42", "/">>
PAId == <<"/", "a", "/", "{id}">>
PB42 == <<"/", "b", "/", "42">>
PU7 == <<"/", "u", "_", "v", "/", "7">>
PUId == <<"/", "u", "_", "v", "/", "{id}">>

\* the words that contain "{" (and end in "}"), and the name between the braces
BraceTokens == {"{id}"}
Unbrace(tok) == "id"

\* strings.Split(s, sep)
RECURSIVE Split(_, _)
Split(s, sep) ==
    IF \A i \in 1..Len(s) : s[i] # sep
    THEN <<s>>
    ELSE LET i == CHOOSE i \in 1..Len(s) :
                    s[i] = sep /\ \A j \in 1..(i - 1) : s[j] # sep
         IN <<SubSeq(s, 1, i - 1)>> \o Split(SubSeq(s, i + 1, Len(s)), sep)

\* strings.Trim(s, c)
RECURSIVE Trim(_, _)
Trim(s, c) ==
    IF s # <<>> /\ s[1] = c THEN Trim(Tail(s), c)
    ELSE IF s # <<>> /\ s[Len(s)] = c THEN Trim(SubSeq(s, 1, Len(s) - 1), c)
    ELSE s

\* strings.Contains(b, e)
Contains(b, e) == \E i \in 0..(Len(b) - Len(e)) : SubSeq(b, i + 1, i + Len(e)) = e

\* strings.Contains(tmplPath, "{")
ContainsBrace(path) == \E i \in 1..Len(path) : path[i] \in BraceTokens

\* the registry key of a path and a method: path + "_" + method
KeyIgnoringMethod(path, method) == path \o <<"_", "GET">>
Key(path, method) == path \o <<"_", method>>

\* ------------------------------------------------------------- matchPath
\* strings.HasPrefix(part, "{") && strings.HasSuffix(part, "}")
IsVar(part) ==
    part # <<>> /\ part[1] \in BraceTokens /\ part[Len(part)] \in BraceTokens

\* a literal segment of the template against the segment of the path
AnySegment(part, seg) == TRUE
LiteralMatches(part, seg) == part = seg

NoMatch == [matches |-> FALSE, vars |-> NoVars]

matchPath(template, path) ==
    LET tmplParts == Split(Trim(template, "/"), "/")
        pathParts == Split(Trim(path, "/"), "/")
        n == Len(tmplParts)
        varAt == { i \in 1..n : IsVar(tmplParts[i]) }
    IN IF n # Len(pathParts) THEN NoMatch
       ELSE IF \E i \in (1..n) \ varAt : ~LiteralMatches(tmplParts[i], pathParts[i])
       THEN NoMatch
       ELSE [matches |-> TRUE,
             vars |-> [k \in { Unbrace(tmplParts[i][1]) : i \in varAt } |->
                         LET last == CHOOSE i \in varAt :
                                       /\ Unbrace(tmplParts[i][1]) = k
                                       /\ \A j \in varAt :
                                            Unbrace(tmplParts[j][1]) = k => j <= i
                         IN pathParts[last]]]

\* -------------------------------------------------------- matchesRequest
\* config.Scenario Matches; a scenario without a matches clause has none set
NoMatches == [Headers |-> NoVars, Query |-> NoVars, Body |-> <<>>]

\* r.Header.Get(k), r.URL.Query().Get(k): "" when absent
Get(m, k) == IF k \in DOMAIN m THEN m[k] ELSE ""

\* the body pattern: /.../ is a regular expression (here of literal words,
\* which regexp.MatchString finds anywhere in the body), anything else a
\* substring
ExpectedBody(b) ==
    IF Len(b) > 2 /\ b[1] = "/" /\ b[Len(b)] = "/"
    THEN SubSeq(b, 2, Len(b) - 1) ELSE b

matchesRequest(s, r) ==
    IF \E k \in DOMAIN s.Matches.Headers : Get(r.Headers, k) # s.Matches.Headers[k]
    THEN FALSE
    ELSE IF \E k \in DOMAIN s.Matches.Query : Get(r.Query, k) # s.Matches.Query[k]
    THEN FALSE
    ELSE IF Len(s.Matches.Body) > 0
    THEN Contains(r.Body, ExpectedBody(s.Matches.Body))
    ELSE TRUE

\* for _, s := range scenariosList { if matchesRequest(s, r) { break } }:
\* the position of the scenario that serves the request, 0 when none does
LastMatch(list, r) ==
    IF \A i \in 1..Len(list) : ~matchesRequest(list[i], r) THEN 0
    ELSE CHOOSE i \in 1..Len(list) :
           /\ matchesRequest(list[i], r)
           /\ \A j \in (i + 1)..Len(list) : ~matchesRequest(list[j], r)
FirstMatch(list, r) ==
    IF \A i \in 1..Len(list) : ~matchesRequest(list[i], r) THEN 0
    ELSE CHOOSE i \in 1..Len(list) :
           /\ matchesRequest(list[i], r)
           /\ \A j \in 1..(i - 1) : ~matchesRequest(list[j], r)

\* ------------------------------------------------------ scenarios, requests
\* a scenario as POST /scenario decodes it and config.AddScenario completes
\* it: Index 0, CBState closed
NewScenario(path, method, matches, responses, cb) ==
    [Path |-> path, Method |-> method, Matches |-> matches,
     Responses |-> responses, CircuitBreaker |-> cb,
     Index |-> 0, CBState |-> NewCBState]

Unarmed == [FailureThreshold |-> 0, SuccessThreshold |-> 0, Timeout |-> 1]
TripsAtOnce == [FailureThreshold |-> 1, SuccessThreshold |-> 1, Timeout |-> 1]

Tenant1 == [k \in {"X-Tenant"} |-> "t1"]
Query1 == [k \in {"q"} |-> "1"]
TenantAndQuery == [Headers |-> Tenant1, Query |-> Query1, Body |-> <<>>]
BodyHasX == [Headers |-> NoVars, Query |-> NoVars, Body |-> <<"/", "x", "/">>]

ScenarioBodies ==
    { NewScenario(PA, "GET", TenantAndQuery, <<R200>>, Unarmed),
      NewScenario(PA, "GET", NoMatches, <<R404, R200>>, Unarmed),
      NewScenario(PA, "POST", BodyHasX, <<R200>>, Unarmed),
      NewScenario(PAId, "GET", NoMatches, <<R500>>, TripsAtOnce),
      NewScenario(PUId, "GET", NoMatches, <<R200>>, Unarmed),
      NewScenario(PA42, "GET", NoMatches, <<R200>>, Unarmed) }

\* the requests of the clients
RequestPaths == {PA, PASlash, PA42, PA42Slash, PB42, PU7}

RouterRequests ==
    { [Method |-> "GET", Path |-> p, Headers |-> hq[1], Query |-> hq[2],
       Body |-> <<>>] :
        p \in RequestPaths,
        hq \in {<<NoVars, NoVars>>, <<Tenant1, NoVars>>, <<Tenant1, Query1>>} }
    \cup
    { [Method |-> "POST", Path |-> p, Headers |-> NoVars, Query |-> NoVars,
       Body |-> b] :
        p \in RequestPaths, b \in {<<>>, <<"w", "x">>} }

\* the number of scenarios in the registry
RECURSIVE SumLen(_, _)
SumLen(f, keys) ==
    IF keys = {} THEN 0
    ELSE LET k == CHOOSE k \in keys : TRUE
         IN Len(f[k]) + SumLen(f, keys \ {k})

NumScenarios == SumLen(scenarios, DOMAIN scenarios)

\* a nil *CircuitBreakerState
Nil == [nil |-> TRUE]

\* if s.CBState == nil { s.CBState = &CircuitBreakerState{State: "closed"} }
KeepCBState(s) == s
WithCBState(s) ==
    IF s.CBState = Nil THEN [s EXCEPT !.CBState = NewCBState] ELSE s

\* config.addScenarioLocked: the breaker state of a scenario that has none,
\* then the list of the key, followed by the scenario
addScenarioLocked(reg, s) ==
    LET key == Key(s.Path, s.Method)
        s1 == WithCBState(s)
    IN IF key \in DOMAIN reg
       THEN [reg EXCEPT ![key] = Append(@, s1)]
       ELSE [k \in DOMAIN reg \cup {key} |-> IF k = key THEN <<s1>> ELSE reg[k]]

\* ------------------------------------------------------ the catch-all route
\* the templates the slow path may find first: sync.Map.Range visits the keys
\* in no particular order
SlowPathMatches(method, path) ==
    { k \in DOMAIN scenarios :
        LET parts == Split(k, "_")
        IN /\ Len(parts) = 2
           /\ parts[2] = <<method>>
           /\ ContainsBrace(parts[1])
           /\ matchPath(parts[1], path).matches }

\* what the catch-all route hands to HandleScenario: the template that
\* matched (none on the exact path) and the variables; the empty set when the
\* route answers http.NotFound
Resolve(method, path) ==
    IF Key(path, method) \in DOMAIN scenarios
    THEN { [tmpl |-> <<>>, vars |-> NoVars] }
    ELSE { [tmpl |-> Split(k, "_")[1], vars |-> matchPath(Split(k, "_")[1], path).vars] :
             k \in SlowPathMatches(method, path) }

\* HandleScenario's path template: the template the catch-all route matched,
\* the request path when it matched none
PathTemplate(path, tmpl) == IF tmpl # <<>> THEN tmpl ELSE path

\* HandleScenario from the breaker check on, for a request served alone
\* (checkCircuitBreaker, the cursor, isFailure, updateCircuitBreaker), at
\* time t: the scenario afterwards and the status of the reply
Serve(s, t) ==
    LET armed == s.CircuitBreaker.FailureThreshold > 0
        c == IF armed THEN checkCircuitBreaker(s.CBState, s.CircuitBreaker, t)
             ELSE [cb |-> s.CBState, allowed |-> TRUE]
    IN IF ~c.allowed
       THEN [s |-> [s EXCEPT !.CBState = c.cb], status |-> StatusServiceUnavailable]
       ELSE LET resp == s.Responses[s.Index + 1]
                cb2 == IF armed
                       THEN updateCircuitBreaker(c.cb, s.CircuitBreaker,
                                                 ~IsFailure(resp.Status), t)
                       ELSE c.cb
            IN [s |-> [s EXCEPT !.Index = NextIdx(s.Index, Len(s.Responses)),
                                !.CBState = cb2],
                status |-> resp.Status]

\* the handler writes the cursor and the breaker through its pointer to the
\* scenario it matched (scenario = s): the registry after those writes
WriteThroughKey(reg, key, pos, s) ==
    [reg EXCEPT ![key] = [i \in DOMAIN @ |->
                            [@[i] EXCEPT !.Index = s.Index, !.CBState = s.CBState]]]
WriteThrough(reg, key, pos, s) == [reg EXCEPT ![key][pos] = s]

Answer(r, status, key, pos, pathVars) ==
    [req |-> r, status |-> status, key |-> key, pos |-> pos, vars |-> pathVars]

\* --------------------------------------------------------------- actions
\* POST /scenario with one scenario: handleAddScenario, config.AddScenario
HandleAddScenario(s) ==
    /\ NumScenarios < MaxScenarios
    /\ scenarios' = addScenarioLocked(scenarios, s)
    /\ lastRouted' = Answer([NotRouted.req EXCEPT !.Method = "POST",
                                                  !.Path = <<"/", "scenario">>],
                            StatusOK, <<>>, 0, NoVars)
    /\ UNCHANGED <<engineVars, pipelineVars, restVars>>

\* a request for the catch-all route: the look-ups, then HandleScenario:
\* its own look-up, the matcher, and the scenario or HandleEcho
Route(r) ==
    /\ IF Resolve(r.Method, r.Path) = {}
       THEN /\ lastRouted' = Answer(r, StatusNotFound, <<>>, 0, NoVars)
            /\ scenarios' = scenarios
       ELSE \E res \in Resolve(r.Method, r.Path) :
              LET key == Key(PathTemplate(r.Path, res.tmpl), r.Method)
              IN IF key \notin DOMAIN scenarios
                 THEN /\ lastRouted' = Answer(r, StatusNotFound, <<>>, 0, NoVars)
                      /\ scenarios' = scenarios
                 ELSE LET pos == FirstMatch(scenarios[key], r)
                      IN IF pos = 0
                         THEN /\ \E st \in EchoStatuses :
                                   lastRouted' = Answer(r, st, key, 0, res.vars)
                              /\ scenarios' = scenarios
                         ELSE LET a == Serve(scenarios[key][pos], now)
                              IN /\ scenarios' = WriteThrough(scenarios, key, pos, a.s)
                                 /\ lastRouted' = Answer(r, a.status, key, pos, res.vars)
    /\ UNCHANGED <<engineVars, pipelineVars, restVars>>

\* the handler's own state is not part of the router's
EngineIdle ==
    /\ scenario = [Responses |-> <<R200>>, CircuitBreaker |-> Unarmed]
    /\ cbState = NewCBState
    /\ index = 0
    /\ now = 0
    /\ inflight = EmptyBag
    /\ faults = [delay |-> 0, http_error |-> 0]
    /\ started = 0
    /\ lastReply = NewRequest
    /\ ghost = NewGhost

RouterInit == EngineIdle /\ RouterIdle /\ PipelineIdle /\ RestIdle

RouterNext ==
    \/ \E s \in ScenarioBodies : HandleAddScenario(s)
    \/ \E r \in RouterRequests : Route(r)

RouterSpec == RouterInit /\ [][RouterNext]_vars

\* ------------------------------------------------- properties of the router
\* every scenario in the registry
AllScenarios ==
    UNION { { scenarios[k][i] : i \in 1..Len(scenarios[k]) } : k \in DOMAIN scenarios }

\* the header, query and body predicates of a matches clause all hold of r
Holds(m, r) ==
    /\ \A k \in DOMAIN m.Headers :
         k \in DOMAIN r.Headers /\ r.Headers[k] = m.Headers[k]
    /\ \A k \in DOMAIN m.Query :
         k \in DOMAIN r.Query /\ r.Query[k] = m.Query[k]
    /\ m.Body # <<>> => Contains(r.Body, ExpectedBody(m.Body))

\* no scenario but the one at position pos of key changes in this step
OnlyChanges(key, pos) ==
    /\ DOMAIN scenarios' = DOMAIN scenarios
    /\ \A k \in DOMAIN scenarios :
         /\ Len(scenarios'[k]) = Len(scenarios[k])
         /\ \A i \in 1..Len(scenarios[k]) :
              (k # key \/ i # pos) => scenarios'[k][i] = scenarios[k][i]

\* this step is the router's answer to a client's request
Routed == lastRouted'.req \in RouterRequests /\ Route(lastRouted'.req)

\* C12: a request that reaches the list of a key is served by the first
\* scenario of the list, in insertion order, whose header, query and body
\* predicates all hold of it (all do of a scenario without a matches clause);
\* when none does, HandleEcho answers and no cursor or breaker changes.
C12_FirstMatchWins ==
    [][LET r == lastRouted'.req IN
         (Routed /\ lastRouted'.key # <<>>)
         => LET list == scenarios[lastRouted'.key]
                ok == { i \in 1..Len(list) : Holds(list[i].Matches, r) }
                pos == lastRouted'.pos
            IN IF ok = {}
               THEN /\ pos = 0
                    /\ lastRouted'.status \in EchoStatuses
                    /\ scenarios' = scenarios
               ELSE /\ pos \in ok
                    /\ \A j \in ok : pos <= j
                    /\ lastRouted'.status \in
                         {StatusServiceUnavailable}
                         \cup { list[pos].Responses[n].Status :
                                  n \in 1..Len(list[pos].Responses) }
                    /\ OnlyChanges(lastRouted'.key, pos)
      ]_vars

\* M1 with a matches clause before M2 without: a request that satisfies only
\* M1's header predicate got M2's first response
C12_Witness ==
    /\ lastRouted.key = Key(PA, "GET")
    /\ Len(scenarios[lastRouted.key]) = 2
    /\ scenarios[lastRouted.key][1].Matches = TenantAndQuery
    /\ scenarios[lastRouted.key][2].Matches = NoMatches
    /\ lastRouted.req.Headers = Tenant1
    /\ lastRouted.req.Query = NoVars
    /\ lastRouted.pos = 2
    /\ lastRouted.status = 404

\* the segments of a path, and a path that has as many segments as a
\* template and equals it on every segment that is not a {name}
Segments(p) == Split(Trim(p, "/"), "/")

Instantiates(p, t) ==
    /\ Len(Segments(p)) = Len(Segments(t))
    /\ \A i \in 1..Len(Segments(t)) :
         IsVar(Segments(t)[i]) \/ Segments(t)[i] = Segments(p)[i]

\* C13: a request whose path instantiates the template path of a registered
\* scenario of its method (the only scenario of its key, without a matches
\* clause, and no other scenario of that method has the request's path or a
\* template it instantiates) is served by that scenario, with each {name}
\* bound to the segment of the path in its place; and a request served by a
\* template scenario instantiates its template.
C13_TemplateServes ==
    [][LET r == lastRouted'.req IN
         Routed
         => /\ \A k \in DOMAIN scenarios :
                 LET s == scenarios[k][1]
                 IN (/\ Len(scenarios[k]) = 1
                     /\ ContainsBrace(s.Path)
                     /\ s.Matches = NoMatches
                     /\ s.Method = r.Method
                     /\ Instantiates(r.Path, s.Path)
                     /\ \A s2 \in AllScenarios \ {s} :
                          s2.Method = r.Method
                          => (s2.Path # r.Path /\ ~Instantiates(r.Path, s2.Path)))
                    => /\ lastRouted'.key = k
                       /\ lastRouted'.pos = 1
                       /\ \A i \in 1..Len(Segments(s.Path)) :
                            IsVar(Segments(s.Path)[i])
                            => LET name == Unbrace(Segments(s.Path)[i][1])
                               IN /\ name \in DOMAIN lastRouted'.vars
                                  /\ lastRouted'.vars[name] = Segments(r.Path)[i]
            /\ lastRouted'.pos > 0
                 => LET s == scenarios[lastRouted'.key][lastRouted'.pos]
                    IN (ContainsBrace(s.Path) /\ s.Path # r.Path)
                       => Instantiates(r.Path, s.Path)
      ]_vars

ResolvedKeys(method, path) ==
    { Key(PathTemplate(path, res.tmpl), method) : res \in Resolve(method, path) }

\* C15: for every registered scenario path P, a request to P followed by a
\* slash is resolved to the same registry key as a request to P.
C15_TrailingSlashSameScenario ==
    \A s \in AllScenarios :
        ResolvedKeys(s.Method, s.Path \o <<"/">>) = ResolvedKeys(s.Method, s.Path)

\* ======================================================================
\* The middleware pipeline (server.NewRouter: requestIDMiddleware, then
\* loggingMiddleware, then the handler) with the request counter and the
\* history buffer.  No CORS and no rate limiter are configured.  Up to
\* NumClients requests are inside the pipeline at a time; one action per
\* access to the shared state:
\*   Arrive  requestIDMiddleware (atomic.AddUint64 on the counter)
\*   Handle  the handler (handleResetHistory under the history mutex;
\*           HandleEcho, which may set response headers of its own)
\*   Record  loggingMiddleware after the handler, under the history mutex
\* A request ID is a string of characters, here a sequence of them.
\* ======================================================================
NumClients == 2
MaxArrivals == 4
MaxHistorySize == 2

PResetHistory == "/api/control/reset-history"
PEcho == "/echo"

\* strconv.FormatUint(n, 10)
Digits == <<"0", "1", "2", "3", "4", "5", "6", "7", "8", "9">>

RECURSIVE FormatUint(_)
FormatUint(n) ==
    IF n < 10 THEN <<Digits[n + 1]>>
    ELSE FormatUint(n \div 10) \o <<Digits[(n % 10) + 1]>>

\* the X-Request-ID header of a request: none, or a value the client chose
ClientIDs == { <<>>, <<"1">>, <<"a">> }

\* the X-Request-ID response header HandleEcho is asked to set through
\* X-Echo-Headers or X-Echo-Set-Header-*: none, or a value
EchoedIDs == { <<>>, <<"z">> }

\* requestIDMiddleware: atomic.AddUint64(&config.RequestCounter, 1)
SameCounter(n) == n
AddUint64(n) == n + 1

\* requestIDMiddleware: the header's value, or the counter's after the
\* increment when the header is absent or empty
GeneratedID(xid, counter) == FormatUint(counter)
RequestID(xid, counter) == IF xid = <<>> THEN FormatUint(counter) ELSE xid

\* loggingMiddleware: len(config.RequestHistory) >= cfg.HistorySize
OverFull(len, size) == len > size
Full(len, size) == len >= size

\* handleResetHistory: config.RequestHistory[:0]
Kept(h) == h
Cleared(h) == <<>>

\* config.RequestRecord of a request: ID, Path, StatusCode
Record(p) == [ID |-> p.id, Path |-> p.path, StatusCode |-> p.status]

\* loggingMiddleware: the oldest record goes when the buffer is full, then
\* the record is appended
Appended(h, rec, size) ==
    Append(IF Full(Len(h), size) THEN Tail(h) ELSE h, rec)

\* the last n elements of a sequence (all of it when it has fewer)
LastN(q, n) == IF Len(q) <= n THEN q ELSE SubSeq(q, Len(q) - n + 1, Len(q))

Pending == BagToSet(pending)

\* ---------------------------------------------------------------- actions
\* a request enters: requestIDMiddleware assigns the ID and sets it on the
\* response; loggingMiddleware wraps the writer (status 200 until written)
Arrive(path, xid) ==
    /\ BagCardinality(pending) < NumClients
    /\ trail.numCompleted + BagCardinality(pending) < MaxArrivals
    /\ LET counter == IF xid = <<>> THEN AddUint64(RequestCounter)
                      ELSE RequestCounter
           id == RequestID(xid, counter)
       IN /\ RequestCounter' = counter
          /\ pending' = pending (+) SetToBag({[xid |-> xid, id |-> id,
                                               path |-> path, header |-> id,
                                               status |-> StatusOK,
                                               stage |-> "handler"]})
    /\ UNCHANGED <<cfg, RequestHistory, lastResponse, trail>>
    /\ UNCHANGED <<engineVars, routerVars, restVars>>

\* the handler of the request runs
Handle(p) ==
    /\ p.stage = "handler"
    /\ IF p.path = PResetHistory
       THEN /\ RequestHistory' = Cleared(RequestHistory)
            /\ trail' = [trail EXCEPT !.sinceReset = 0]
            /\ pending' = (pending (-) SetToBag({p}))
                          (+) SetToBag({[p EXCEPT !.stage = "log"]})
       ELSE /\ \E set \in EchoedIDs :
                 pending' = (pending (-) SetToBag({p}))
                            (+) SetToBag({[p EXCEPT
                                  !.stage = "log",
                                  !.header = IF set # <<>> THEN set ELSE @]})
            /\ UNCHANGED <<RequestHistory, trail>>
    /\ UNCHANGED <<cfg, RequestCounter, lastResponse>>
    /\ UNCHANGED <<engineVars, routerVars, restVars>>

\* the handler has returned: loggingMiddleware records the request and the
\* response is complete
RecordRequest(p) ==
    /\ p.stage = "log"
    /\ RequestHistory' = Appended(RequestHistory, Record(p), cfg.HistorySize)
    /\ pending' = pending (-) SetToBag({p})
    /\ lastResponse' = [xid |-> p.xid, id |-> p.id, path |-> p.path,
                        header |-> p.header, status |-> p.status]
    /\ trail' = [recent |-> LastN(Append(trail.recent, Record(p)), cfg.HistorySize),
                 numCompleted |-> trail.numCompleted + 1,
                 sinceReset |-> trail.sinceReset + 1]
    /\ UNCHANGED <<cfg, RequestCounter>>
    /\ UNCHANGED <<engineVars, routerVars, restVars>>

PipelineInit ==
    /\ EngineIdle
    /\ RouterIdle
    /\ cfg \in [HistorySize : 1..MaxHistorySize]
    /\ RequestCounter = 0
    /\ RequestHistory = <<>>
    /\ pending = EmptyBag
    /\ lastResponse = NoResponse
    /\ trail = NoTrail
    /\ RestIdle

PipelineNext ==
    \/ \E path \in {PResetHistory, PEcho} : \E xid \in ClientIDs : Arrive(path, xid)
    \/ \E p \in Pending : Handle(p)
    \/ \E p \in Pending : RecordRequest(p)

PipelineSpec == PipelineInit /\ [][PipelineNext]_vars

\* ----------------------------------------------- properties of the pipeline
\* this step completes request p: its record is stored, its response sent
Completes(p) == p \in Pending /\ RecordRequest(p)

\* C16 as claimed: the buffer never holds more than HistorySize records, and
\* once more than HistorySize requests have completed it holds exactly the
\* records of the HistorySize requests that completed last, in that order.
C16_HistoryIsLastCompleted ==
    /\ Len(RequestHistory) <= cfg.HistorySize
    /\ trail.numCompleted > cfg.HistorySize => RequestHistory = trail.recent

\* C16 as amended: the same, counting the requests that completed since
\* reset-history last emptied the buffer (since the start when it never did);
\* with fewer of them than HistorySize the buffer holds the records of
\* exactly those.
C16_HistoryIsLastCompletedSinceReset ==
    /\ Len(RequestHistory) <= cfg.HistorySize
    /\ trail.sinceReset > cfg.HistorySize
         => (Len(RequestHistory) = cfg.HistorySize /\ RequestHistory = trail.recent)
    /\ trail.sinceReset <= cfg.HistorySize
         => RequestHistory = LastN(trail.recent, trail.sinceReset)

\* three requests completed with room for two: the first record is gone
C16_Witness ==
    /\ cfg.HistorySize = 2
    /\ trail.sinceReset = 3
    /\ Len(RequestHistory) = 2
    /\ RequestHistory[1].ID = <<"a">>
    /\ RequestHistory[2].ID = <<"2">>
    /\ RequestCounter = 2

\* C17 as claimed: a request that carries X-Request-ID: X is answered with
\* X-Request-ID: X and recorded with ID X.
C17_RequestIDRoundTrip ==
    [][\A p \in Pending :
         (Completes(p) /\ p.xid # <<>>)
         => /\ lastResponse'.header = p.xid
            /\ RequestHistory'[Len(RequestHistory')].ID = p.xid
      ]_vars

\* C17 as amended: it is recorded with ID X, and answered with
\* X-Request-ID: X unless its handler set an X-Request-ID response header of
\* its own after the middleware did.
C17_RequestIDRecorded ==
    [][/\ \A p \in Pending :
            (Completes(p) /\ p.xid # <<>>)
            => /\ RequestHistory'[Len(RequestHistory')].ID = p.xid
               /\ lastResponse'.id = p.xid
               /\ lastResponse'.header \in {p.xid} \cup (EchoedIDs \ {<<>>})
       /\ \A p \in Pending :
            (p.stage = "handler" /\ p.xid # <<>>) => p.header = p.xid
      ]_vars

C17_Witness ==
    /\ lastResponse.xid = <<"a">>
    /\ lastResponse.header = <<"a">>
    /\ RequestHistory # <<>>
    /\ RequestHistory[Len(RequestHistory)].ID = <<"a">>
    /\ RequestCounter > 0

\* the IDs the counter generated for the requests inside the pipeline and
\* for those in the buffer are those of requests that came without a header
GeneratedPending == { p \in Pending : p.xid = <<>> }

\* C18: a request without X-Request-ID gets the decimal value of the counter
\* after its increment by one, no ID generated before equals it, a request
\* with the header leaves the counter alone, and no step lowers the counter.
C18_GeneratedIDs ==
    [][/\ RequestCounter' >= RequestCounter
       /\ \A p \in Pending' \ Pending :
            p.stage = "handler"
            => IF p.xid = <<>>
               THEN /\ RequestCounter' = RequestCounter + 1
                    /\ p.id = FormatUint(RequestCounter')
                    /\ \A n \in 1..RequestCounter : FormatUint(n) # p.id
                    /\ \A q \in GeneratedPending : BagIn(q, pending') => q.id # p.id
               ELSE RequestCounter' = RequestCounter
       /\ (\E p \in Pending : p.path = PResetHistory /\ Handle(p))
            => RequestCounter' = RequestCounter
      ]_vars

\* a reset-history request took ID 1 and completed; two requests without
\* the header are inside the pipeline at once, with IDs 2 and 3
C18_Witness ==
    /\ RequestCounter = 3
    /\ \E p, q \in GeneratedPending : p.id = <<"2">> /\ q.id = <<"3">>
    /\ lastResponse.path = PResetHistory
    /\ lastResponse.id = <<"1">>
    /\ lastResponse.xid = <<>>

\* C19: the records in the buffer have pairwise distinct IDs.
C19_DistinctRecordIDs ==
    \A i, j \in 1..Len(RequestHistory) :
        i # j => RequestHistory[i].ID # RequestHistory[j].ID

\* C20: the reset handler leaves the buffer empty and answers 200; when no
\* other request completed since and none is inside the pipeline, the buffer
\* holds exactly the record of the reset request once it has completed.
C20_ResetThenOwnRecord ==
    [][\A p \in Pending :
         p.path = PResetHistory
         => /\ Handle(p) => RequestHistory' = <<>>
            /\ Completes(p) => lastResponse'.status = StatusOK
            /\ (Completes(p) /\ trail.sinceReset = 0 /\ BagCardinality(pending) = 1)
               => RequestHistory' = <<[ID |-> p.id, Path |-> PResetHistory,
                                       StatusCode |-> StatusOK]>>
      ]_vars

\* two records were in the buffer when the reset ran
C20_Witness ==
    /\ cfg.HistorySize = 2
    /\ trail.numCompleted = 3
    /\ trail.sinceReset = 1
    /\ pending = EmptyBag
    /\ lastResponse.path = PResetHistory
    /\ Len(RequestHistory) = 1
    /\ RequestHistory[1].Path = PResetHistory
    /\ trail.recent[1].Path = PEcho

\* ============================================================= the registry
\* POST /scenario handlers running concurrently with each other and with
\* readers of the registry. A scenario is a pointer (&scenarios[i]): addr
\* tells the scenarios of different requests apart.

\* ------------------------------------------------------------ JSON bodies
JInvalid == [type |-> "invalid"]
JNull == [type |-> "null"]
JStr(v) == [type |-> "string", val |-> v]
JNum(n) == [type |-> "number", val |-> n]
JArr(items) == [type |-> "array", val |-> items]
JObj(fields) == [type |-> "object", val |-> fields]

\* the zero config.Scenario json.Unmarshal starts from
ZeroCircuitBreaker == [FailureThreshold |-> 0, SuccessThreshold |-> 0, Timeout |-> 0]
ZeroScenario ==
    [Path |-> <<>>, Method |-> "", Matches |-> NoMatches, Responses |-> <<>>,
     CircuitBreaker |-> ZeroCircuitBreaker, CBState |-> Nil, Index |-> 0]

\* the JSON type each field of config.Scenario decodes from; the struct has
\* no json tags, so every exported field is settable by its name
FieldType ==
    [path |-> "string", method |-> "string", responses |-> "array",
     index |-> "number", cbstate |-> "object", circuitbreaker |-> "object"]

Field(o, f, zero) == IF f \in DOMAIN o THEN o[f].val ELSE zero

UnmarshalCircuitBreaker(o) ==
    [FailureThreshold |-> Field(o, "failurethreshold", 0),
     SuccessThreshold |-> Field(o, "successthreshold", 0),
     Timeout |-> Field(o, "timeout", 0)]

UnmarshalCBState(o) ==
    [State |-> Field(o, "state", ""), Failures |-> Field(o, "failures", 0),
     Successes |-> Field(o, "successes", 0),
     LastFailure |-> ZeroTime, LastTransition |-> ZeroTime]

\* json.Unmarshal(bodyBytes, &s): null leaves the zero scenario, an object
\* sets the fields it names, anything else is an error
UnmarshalScenario(j) ==
    IF j.type = "null" THEN [err |-> FALSE, val |-> ZeroScenario]
    ELSE IF j.type # "object" THEN [err |-> TRUE, val |-> ZeroScenario]
    ELSE IF \E f \in DOMAIN j.val : j.val[f].type # FieldType[f]
    THEN [err |-> TRUE, val |-> ZeroScenario]
    ELSE [err |-> FALSE,
          val |-> [ZeroScenario EXCEPT
                     !.Path = Field(j.val, "path", <<>>),
                     !.Method = Field(j.val, "method", ""),
                     !.Responses = Field(j.val, "responses", <<>>),
                     !.Index = Field(j.val, "index", 0),
                     !.CircuitBreaker =
                         IF "circuitbreaker" \in DOMAIN j.val
                         THEN UnmarshalCircuitBreaker(j.val.circuitbreaker.val)
                         ELSE ZeroCircuitBreaker,
                     !.CBState = IF "cbstate" \in DOMAIN j.val
                                 THEN UnmarshalCBState(j.val.cbstate.val)
                                 ELSE Nil]]

\* json.Unmarshal(bodyBytes, &scenarios): null leaves the nil slice
UnmarshalList(j) ==
    IF j.type = "null" THEN [err |-> FALSE, val |-> <<>>]
    ELSE IF j.type # "array" THEN [err |-> TRUE, val |-> <<>>]
    ELSE IF \E i \in 1..Len(j.val) : UnmarshalScenario(j.val[i]).err
    THEN [err |-> TRUE, val |-> <<>>]
    ELSE [err |-> FALSE,
          val |-> [i \in 1..Len(j.val) |-> UnmarshalScenario(j.val[i]).val]]

\* handleAddScenario's parse: as a list first, then as a single scenario
AcceptAnything(j) ==
    IF ~UnmarshalList(j).err THEN UnmarshalList(j)
    ELSE [err |-> FALSE, val |-> <<UnmarshalScenario(j).val>>]
Decode(j) ==
    IF ~UnmarshalList(j).err THEN UnmarshalList(j)
    ELSE IF ~UnmarshalScenario(j).err
    THEN [err |-> FALSE, val |-> <<UnmarshalScenario(j).val>>]
    ELSE [err |-> TRUE, val |-> <<>>]

StatusBadRequest == 400

\* the bodies the clients post
JResponses == JArr(<<R200>>)
JA == JObj([path |-> JStr(PA), method |-> JStr("GET"), responses |-> JResponses])
JB == JObj([path |-> JStr(PB42), method |-> JStr("GET"), responses |-> JResponses])
JTripped ==
    JObj([path |-> JStr(PB42), method |-> JStr("GET"), responses |-> JResponses,
          index |-> JNum(1),
          cbstate |-> JObj([state |-> JStr("open"), failures |-> JNum(2)])])
JArmedOpen ==
    JObj([path |-> JStr(PB42), method |-> JStr("GET"), responses |-> JResponses,
          circuitbreaker |-> JObj([failurethreshold |-> JNum(2)]),
          cbstate |-> JObj([state |-> JStr("open")])])
PostBodies ==
    { JInvalid, JObj([path |-> JNum(5), method |-> JStr("GET")]),
      JArr(<<JA, JNum(5)>>), JNull, JA, JArr(<<JA, JB>>), JTripped, JArmedOpen,
      JObj([path |-> JStr(PA), method |-> JStr("GET")]),
      JObj([method |-> JStr("GET"), responses |-> JResponses]),
      JObj([path |-> JStr(PA), responses |-> JResponses]) }

\* ------------------------------------------------------- config.AddScenario
\* configLock.Lock() returns once no one holds the lock
AlwaysFree(lock) == TRUE
Free(lock) == lock = 0

\* newList := make(..., len(oldList)+1); copy(newList, oldList);
\* newList[len(oldList)] = s: a new list on the heap, the old one untouched
\* (old = 0: the key had no list)
WriteInPlace(heap, old, s) ==
    IF old = 0 THEN Append(heap, <<s>>)
    ELSE Append([heap EXCEPT ![old] = Append(@, s)], Append(heap[old], s))
CopyOnWrite(heap, old, s) ==
    Append(heap, (IF old = 0 THEN <<>> ELSE heap[old]) \o <<s>>)

\* scenarios.Store(key, newList)
StoreKey(m, key, addr) ==
    [k \in DOMAIN m \cup {key} |-> IF k = key THEN addr ELSE m[k]]

\* the registry by value: the list of every key
View == [k \in DOMAIN store |-> lists[store[k]]]

\* &scenarios[i] of request h: the scenario, and which one it is
Pointer(ptr, s) ==
    [f \in DOMAIN s \cup {"ptr"} |-> IF f = "ptr" THEN ptr ELSE s[f]]

\* the scenario request h is adding
Adding(h) == adds[h].body[adds[h].i]

\* POST /scenario number h arrives with body j: the parse, and 400 when it
\* fails; a body without scenarios is answered 200 at once
Post(h, j) ==
    /\ adds[h].pc = "idle"
    /\ adds[h].Status = 0
    /\ LET d == Decode(j)
           body == [i \in 1..Len(d.val) |-> Pointer(<<h, i>>, d.val[i])]
       IN adds' = [adds EXCEPT ![h] =
                     IF d.err
                     THEN [NoAdd EXCEPT !.json = j, !.Status = StatusBadRequest]
                     ELSE IF body = <<>>
                     THEN [NoAdd EXCEPT !.json = j, !.Status = StatusOK]
                     ELSE [pc |-> "lock", json |-> j, body |-> body, i |-> 1,
                           old |-> 0, Status |-> 0]]
    /\ UNCHANGED <<store, lists, configLock, snapshot, added>>
    /\ UNCHANGED registryFrame

\* config.AddScenario: configLock.Lock(); addScenarioLocked: the breaker
\* state, the key, scenarios.Load(key)
Lock(h) ==
    /\ adds[h].pc = "lock"
    /\ Free(configLock)
    /\ configLock' = h
    /\ LET s == WithCBState(Adding(h))
           key == Key(s.Path, s.Method)
       IN adds' = [adds EXCEPT ![h].pc = "store",
                               ![h].body[adds[h].i] = s,
                               ![h].old = IF key \in DOMAIN store
                                          THEN store[key] ELSE 0]
    /\ UNCHANGED <<store, lists, snapshot, added>>
    /\ UNCHANGED registryFrame

\* addScenarioLocked: the new list and scenarios.Store(key, newList); the
\* deferred configLock.Unlock(); then the next scenario of the body, or
\* w.WriteHeader(http.StatusOK) after the last
Store(h) ==
    /\ adds[h].pc = "store"
    /\ LET s == Adding(h)
           key == Key(s.Path, s.Method)
       IN /\ lists' = CopyOnWrite(lists, adds[h].old, s)
          /\ store' = StoreKey(store, key, Len(lists'))
    /\ configLock' = 0
    /\ adds' = [adds EXCEPT ![h] =
                  IF adds[h].i < Len(adds[h].body)
                  THEN [@ EXCEPT !.pc = "lock", !.i = @ + 1]
                  ELSE [@ EXCEPT !.pc = "idle", !.Status = StatusOK]]
    /\ added' = added \cup {Adding(h)}
    /\ UNCHANGED snapshot
    /\ UNCHANGED registryFrame

\* a request handler's scenariosMap.Load(key): the list it will iterate
Snapshot(key) ==
    /\ key \in DOMAIN store
    /\ snapshot.addr # store[key]
    /\ snapshot' = [key |-> key, addr |-> store[key], seen |-> lists[store[key]]]
    /\ UNCHANGED <<store, lists, configLock, adds, added>>
    /\ UNCHANGED registryFrame

RegistryInit == EngineIdle /\ RouterIdle /\ PipelineIdle /\ RestIdle

RegistryNext ==
    \/ \E h \in 1..NumPosts : \E j \in PostBodies : Post(h, j)
    \/ \E h \in 1..NumPosts : Lock(h)
    \/ \E h \in 1..NumPosts : Store(h)
    \/ \E key \in DOMAIN store : Snapshot(key)

RegistrySpec == RegistryInit /\ [][RegistryNext]_vars

\* ---------------------------------------------- properties of the registry
Ptrs(list) == [i \in 1..Len(list) |-> list[i].ptr]
KeyOf(s) == Key(s.Path, s.Method)

\* C21: an add publishes a new list, the old list of the key followed by the
\* new scenario, and writes to no list already on the heap: the list a reader
\* loaded before the add stays what it was, the list loaded after it is the
\* new one in full, and the list of a key only ever grows by appending.
C21_CopyOnWrite ==
    [][ /\ \A a \in 1..Len(lists) : lists'[a] = lists[a]
        /\ snapshot'.addr # 0 => lists'[snapshot'.addr] = snapshot'.seen
        /\ \A key \in DOMAIN store :
             /\ key \in DOMAIN store'
             /\ \/ View'[key] = View[key]
                \/ \E h \in 1..NumPosts :
                     /\ adds[h].pc = "store" /\ KeyOf(Adding(h)) = key
                     /\ View'[key] = View[key] \o <<Adding(h)>>
        /\ \A h \in 1..NumPosts :
             Store(h) => View' = addScenarioLocked(View, Adding(h))
        /\ \A key \in DOMAIN store : Snapshot(key) => snapshot'.seen = View[key]
      ]_vars

\* a reader holds the list of a key loaded before an add to that key: the key
\* has the longer list, the reader the old one
C21_Witness ==
    /\ snapshot.addr # 0
    /\ snapshot.addr # store[snapshot.key]
    /\ Len(View[snapshot.key]) = Len(snapshot.seen) + 1
    /\ lists[snapshot.addr] = snapshot.seen

\* C22: whatever the interleaving of the adds, every scenario added is in the
\* list of its key exactly once and the list of a key holds nothing else;
\* once POST /scenario has returned 200 all the scenarios of its body are in
\* the registry.
C22_NoAddLost ==
    /\ \A s \in added :
         /\ KeyOf(s) \in DOMAIN store
         /\ Cardinality({i \in 1..Len(View[KeyOf(s)]) :
                           View[KeyOf(s)][i] = s}) = 1
    /\ \A key \in DOMAIN store :
         Len(View[key]) = Cardinality({s \in added : KeyOf(s) = key})
    /\ \A h \in 1..NumPosts :
         adds[h].Status = StatusOK =>
           \A i \in 1..Len(adds[h].body) :
             /\ KeyOf(adds[h].body[i]) \in DOMAIN store
             /\ \E n \in 1..Len(View[KeyOf(adds[h].body[i])]) :
                  View[KeyOf(adds[h].body[i])][n] = adds[h].body[i]

\* two requests have returned whose adds interleaved: the second request
\* added to the key of the first between the first's two adds
C22_Witness ==
    /\ \A h \in 1..NumPosts : adds[h].Status = StatusOK
    /\ \E key \in DOMAIN store : Ptrs(View[key]) = <<<<1, 1>>, <<2, 1>>>>
    /\ \E s \in added : s.ptr = <<1, 2>>

\* the scenarios in the registry
Registered == UNION { {View[key][i] : i \in 1..Len(View[key])} : key \in DOMAIN store }

\* C23: no scenario with an empty responses list, an empty path or an empty
\* method is ever in the registry.
C23_InvalidScenarioRejected ==
    \A s \in Registered : s.Responses # <<>> /\ s.Path # <<>> /\ s.Method # ""

\* C24: every scenario in the registry entered it with cursor index 0 and a
\* closed breaker with no failures and no successes counted (no request is
\* served between the adds, so the runtime state is the one it entered with).
C24_RuntimeStateInitialized ==
    \A s \in Registered :
        /\ s.Index = 0
        /\ s.CBState # Nil
        /\ s.CBState.State = "closed"
        /\ s.CBState.Failures = 0
        /\ s.CBState.Successes = 0

\* POST /scenario number h is answered in this step
Answered(h) == adds[h].Status = 0 /\ adds'[h].Status # 0

\* C25: POST /scenario answers 400 exactly when its body parses neither as a
\* list of scenarios nor as a single scenario, and then the step leaves the
\* registry as it was; otherwise it answers 200, and when it does every
\* scenario of the body is in the list of its key.
C25_BadRequestOrAllAdded ==
    [][ \A h \in 1..NumPosts :
          Answered(h) =>
            LET j == adds'[h].json
                parses == ~UnmarshalList(j).err \/ ~UnmarshalScenario(j).err
                n == IF ~UnmarshalList(j).err THEN Len(UnmarshalList(j).val) ELSE 1
            IN IF parses
               THEN /\ adds'[h].Status = StatusOK
                    /\ Len(adds'[h].body) = n
                    /\ \A i \in 1..n :
                         \E k \in 1..Len(View'[KeyOf(adds'[h].body[i])]) :
                           View'[KeyOf(adds'[h].body[i])][k].ptr = <<h, i>>
               ELSE /\ adds'[h].Status = StatusBadRequest
                    /\ store' = store /\ lists' = lists
      ]_vars

\* request 1, a body of two scenarios, was answered 200 and request 2, a list
\* with an element that is no scenario, 400: the registry holds the two
\* scenarios of request 1 and nothing else
C25_Witness ==
    /\ adds[1].Status = StatusOK /\ Len(adds[1].body) = 2
    /\ adds[2].Status = StatusBadRequest /\ adds[2].json.type = "array"
    /\ Cardinality(Registered) = 2

\* ======================================================================
\* The whole middleware chain of server.NewRouter: requestIDMiddleware,
\* loggingMiddleware, corsMiddleware, rateLimitMiddleware (installed when a
\* limiter is configured), then the handler. One scenario is registered, for
\* GET /a; its cursor and breaker are index and cbState. One action per
\* middleware, so the order in which a request meets them is the chain's.
\* ======================================================================
StatusTooManyRequests == 429

PScenario == "/a"
MaxEntered == 3
GateScenario ==
    [Responses |-> <<R500, R500>>,
     CircuitBreaker |-> [FailureThreshold |-> 2, SuccessThreshold |-> 1,
                         Timeout |-> 1]]

\* rate.NewLimiter(rate.Limit(RateLimitPerS), int(RateLimitPerS)): the size
\* of the bucket, which starts full (whole rates only)
Burst(c) == c.RateLimitPerS

\* limiter.Allow(): a token is there to take
AllowAlways(n) == TRUE
Allow(n) == n > 0

\* corsMiddleware: if cfg.EnableCORS { ... if r.Method == "OPTIONS" {
NeverPreflight(c, method) == FALSE
IsPreflight(c, method) == c.EnableCORS /\ method = "OPTIONS"

\* request p goes on as q
Moves(p, q) == pending' = (pending (-) SetToBag({p})) (+) SetToBag({q})

\* requestIDMiddleware assigns the ID and sets it on the response;
\* loggingMiddleware wraps the writer (status 200 until written)
Enter(method, path, xid) ==
    /\ BagCardinality(pending) < NumClients
    /\ trail.numCompleted + BagCardinality(pending) < MaxEntered
    /\ LET counter == IF xid = <<>> THEN AddUint64(RequestCounter)
                      ELSE RequestCounter
           id == RequestID(xid, counter)
       IN /\ RequestCounter' = counter
          /\ pending' = pending (+) SetToBag({[method |-> method, xid |-> xid,
                                               id |-> id, path |-> path,
                                               header |-> id, status |-> StatusOK,
                                               cors |-> FALSE, took |-> FALSE,
                                               limited |-> FALSE,
                                               stage |-> "cors"]})
    /\ UNCHANGED <<cfg, RequestHistory, lastResponse, trail, tokens>>
    /\ UNCHANGED <<index, cbState, now>>
    /\ UNCHANGED gateFrame

\* corsMiddleware: the headers when CORS is enabled, and the answer to
\* OPTIONS; otherwise on to the rate limiter, or to the handler when no
\* limiter is configured
corsMiddleware(p) ==
    /\ p.stage = "cors"
    /\ IF IsPreflight(cfg, p.method)
       THEN Moves(p, [p EXCEPT !.cors = TRUE, !.status = StatusOK, !.stage = "log"])
       ELSE Moves(p, [p EXCEPT !.cors = cfg.EnableCORS,
                               !.stage = IF cfg.RateLimitPerS > 0 THEN "limit"
                                         ELSE "handler"])
    /\ UNCHANGED <<cfg, RequestCounter, RequestHistory, lastResponse, trail, tokens>>
    /\ UNCHANGED <<index, cbState, now>>
    /\ UNCHANGED gateFrame

\* rateLimitMiddleware: a token, or 429
rateLimitMiddleware(p) ==
    /\ p.stage = "limit"
    /\ IF Allow(tokens)
       THEN /\ tokens' = IF tokens > 0 THEN tokens - 1 ELSE 0
            /\ Moves(p, [p EXCEPT !.took = TRUE, !.stage = "handler"])
       ELSE /\ tokens' = tokens
            /\ Moves(p, [p EXCEPT !.limited = TRUE,
                                  !.status = StatusTooManyRequests,
                                  !.stage = "log"])
    /\ UNCHANGED <<cfg, RequestCounter, RequestHistory, lastResponse, trail>>
    /\ UNCHANGED <<index, cbState, now>>
    /\ UNCHANGED gateFrame

\* the router and the handler: HandleScenario for GET /a, HandleEcho for
\* GET /echo, the catch-all's http.NotFound for the rest
Dispatch(p) ==
    /\ p.stage = "handler"
    /\ IF p.method = "GET" /\ p.path = PScenario
       THEN LET a == Serve([Responses |-> scenario.Responses,
                            CircuitBreaker |-> scenario.CircuitBreaker,
                            Index |-> index, CBState |-> cbState], now)
            IN /\ index' = a.s.Index
               /\ cbState' = a.s.CBState
               /\ Moves(p, [p EXCEPT !.status = a.status, !.stage = "log"])
       ELSE /\ Moves(p, [p EXCEPT !.status = IF p.method = "GET" /\ p.path = PEcho
                                             THEN StatusOK ELSE StatusNotFound,
                                  !.stage = "log"])
            /\ UNCHANGED <<index, cbState>>
    /\ UNCHANGED <<cfg, RequestCounter, RequestHistory, lastResponse, trail, tokens>>
    /\ UNCHANGED now
    /\ UNCHANGED gateFrame

\* loggingMiddleware after next.ServeHTTP: the record, under the history mutex
loggingMiddleware(p) ==
    /\ p.stage = "log"
    /\ RequestHistory' = Appended(RequestHistory, Record(p), cfg.HistorySize)
    /\ pending' = pending (-) SetToBag({p})
    /\ trail' = [trail EXCEPT !.numCompleted = @ + 1]
    /\ UNCHANGED <<cfg, RequestCounter, lastResponse, tokens>>
    /\ UNCHANGED <<index, cbState, now>>
    /\ UNCHANGED gateFrame

\* time passes: the bucket gains a token, up to its size
Refill ==
    /\ tokens < Burst(cfg)
    /\ tokens' = tokens + 1
    /\ UNCHANGED pipelineVars
    /\ UNCHANGED <<index, cbState, now>>
    /\ UNCHANGED gateFrame

GateInit ==
    /\ scenario = GateScenario
    /\ cbState = NewCBState
    /\ index = 0
    /\ now = 0
    /\ inflight = EmptyBag
    /\ faults = [delay |-> 0, http_error |-> 0]
    /\ started = 0
    /\ lastReply = NewRequest
    /\ ghost = NewGhost
    /\ RouterIdle
    /\ RegistryIdle
    /\ LockIdle
    /\ cfg \in [HistorySize : {1}, EnableCORS : BOOLEAN,
                RateLimitPerS : 0..MaxRate]
    /\ RequestCounter = 0
    /\ RequestHistory = <<>>
    /\ pending = EmptyBag
    /\ lastResponse = NoResponse
    /\ trail = NoTrail
    /\ tokens = Burst(cfg)

GateNext ==
    \/ \E r \in {<<"GET", PScenario>>, <<"GET", PEcho>>, <<"OPTIONS", PScenario>>} :
         Enter(r[1], r[2], <<>>)
    \/ \E p \in Pending : corsMiddleware(p)
    \/ \E p \in Pending : rateLimitMiddleware(p)
    \/ \E p \in Pending : Dispatch(p)
    \/ \E p \in Pending : loggingMiddleware(p)
    \/ Refill

GateSpec == GateInit /\ [][GateNext]_vars

\* ------------------------------------- properties of the middleware chain
\* C26 as stated: with a rate limiter configured, every request that
\* completes took a token or was answered 429 for want of one.
C26_EveryRequestTakesAToken ==
    [][ \A p \in Pending :
          (cfg.RateLimitPerS > 0 /\ loggingMiddleware(p)) => (p.took \/ p.limited)
      ]_vars

\* C26: with a rate limiter configured, a request that is not an OPTIONS
\* request answered by the CORS middleware meets the limiter after its ID
\* was assigned and set on the response and the logging wrapper is in place;
\* it takes one token, or, the bucket being empty, is answered 429 without
\* reaching a handler: cursor and breaker stay as they are, the response
\* carries the X-Request-ID and the history records the request with 429.
\* Only a request that took a token changes the cursor or the breaker.
C26_TokenOr429 ==
    [][ /\ \A p \in Pending :
             /\ p.limited => p.stage = "log" /\ p.status = StatusTooManyRequests
             /\ rateLimitMiddleware(p) =>
                  /\ p.id # <<>> /\ p.header = p.id
                  /\ IF tokens > 0
                     THEN /\ tokens' = tokens - 1
                          /\ Moves(p, [p EXCEPT !.took = TRUE, !.stage = "handler"])
                     ELSE /\ tokens' = tokens
                          /\ index' = index /\ cbState' = cbState
                          /\ Moves(p, [p EXCEPT !.limited = TRUE,
                                                !.status = StatusTooManyRequests,
                                                !.stage = "log"])
             /\ loggingMiddleware(p) =>
                  /\ (cfg.RateLimitPerS > 0 /\ ~(cfg.EnableCORS /\ p.method = "OPTIONS"))
                        => (p.took \/ p.limited)
                  /\ p.limited =>
                       /\ ~p.took /\ p.header = p.id
                       /\ RequestHistory'[Len(RequestHistory')] =
                            [ID |-> p.id, Path |-> p.path,
                             StatusCode |-> StatusTooManyRequests]
        /\ tokens' < tokens => \E p \in Pending : rateLimitMiddleware(p)
        /\ (index' # index \/ cbState' # cbState) =>
             \E p \in Pending :
                /\ p.stage = "handler" /\ ~p.limited
                /\ cfg.RateLimitPerS > 0 => p.took
      ]_vars

\* the history holds a request answered 429, after a request that took the
\* token moved the cursor
C26_Witness ==
    /\ cfg.RateLimitPerS > 0
    /\ RequestHistory # <<>>
    /\ RequestHistory[Len(RequestHistory)].StatusCode = StatusTooManyRequests
    /\ index # 0

\* C27: with CORS enabled, corsMiddleware answers an OPTIONS request 200 with
\* the CORS headers and passes it no further: the request meets neither the
\* rate limiter (no token is taken) nor a handler (cursor and breaker stay as
\* they are), and is completed with that answer.
C27_PreflightStopsAtCORS ==
    [][ \A p \in Pending :
          (cfg.EnableCORS /\ p.method = "OPTIONS") =>
             /\ p.stage \in {"cors", "log"} /\ ~p.took /\ ~p.limited
             /\ corsMiddleware(p) =>
                  /\ Moves(p, [p EXCEPT !.cors = TRUE, !.status = StatusOK,
                                        !.stage = "log"])
                  /\ tokens' = tokens /\ index' = index /\ cbState' = cbState
             /\ loggingMiddleware(p) => (p.status = StatusOK /\ p.cors)
      ]_vars

\* an OPTIONS request has been answered 200 with the CORS headers while the
\* bucket of the configured limiter is empty
C27_Witness ==
    /\ cfg.EnableCORS /\ cfg.RateLimitPerS > 0 /\ tokens = 0
    /\ \E p \in Pending :
         /\ p.method = "OPTIONS" /\ p.stage = "log"
         /\ p.cors /\ p.status = StatusOK /\ ~p.took

\* ======================================================================
\* The locks. Requests of every kind that takes a lock in its handler run
\* concurrently: a request served by the scenario (the breaker mutex in
\* checkCircuitBreaker and in updateCircuitBreaker), POST /scenario (the
\* registry lock), POST /api/control/reset-history and POST /replay (the
\* history mutex); loggingMiddleware takes the history mutex once the handler
\* has returned. A critical section is two actions, one that takes the lock
\* and reads and one that writes and releases it. Request c has the ID c; the
\* history buffer holds one record.
\* ======================================================================
StatusBadGateway == 502

LockScenario ==
    [Responses |-> <<R500, R500, R200>>,
     CircuitBreaker |-> [FailureThreshold |-> 2, SuccessThreshold |-> 1,
                         Timeout |-> 1]]

\* the body of POST /replay: whether it parses, and the id it asks for (no
\* request has the ID 0)
ReplayBodies ==
    { [parses |-> FALSE, id |-> 0], [parses |-> TRUE, id |-> 0],
      [parses |-> TRUE, id |-> 1] }

\* what the target and the recorded method make of the replay: no request
\* can be built, the transport fails, or the upstream answers
ReplayOutcomes == {"invalid", "failed", "answered"}

\* mutex.Unlock(): the lock is free again
NoUnlock(holder) == holder
Unlock(holder) == 0

\* handleReplay: for _, rec := range config.RequestHistory { if rec.ID == req.ID
AlwaysFound(h, id) == TRUE
Found(h, id) == \E i \in 1..Len(h) : h[i].ID = id

\* handleReplay: var record config.RequestRecord, and record = rec of the
\* first record with the id: its path (the empty path of the zero record
\* when there is none)
PathFound(h, id) ==
    IF \E i \in 1..Len(h) : h[i].ID = id
    THEN h[CHOOSE i \in 1..Len(h) :
             h[i].ID = id /\ \A j \in 1..(i - 1) : h[j].ID # id].Path
    ELSE ""

\* handleReplay: historyMutex.Unlock() right after the search, before the
\* upstream request is built and sent
HeldWhileSending(holder) == holder
UnlockAfterSearch(holder) == Unlock(holder)

\* the first step of the handler of a request of this kind
Handler(kind) ==
    CASE kind = "scenario" -> "check"
      [] kind = "add" -> "add"
      [] kind = "reset" -> "reset"
      [] kind = "replay" -> "decode"

\* the request arrives; the handler of its route starts
Begin(c, kind, arg) ==
    /\ calls[c].pc = "new"
    /\ \A b \in 1..(c - 1) : calls[b].pc # "new"
    /\ calls' = [calls EXCEPT ![c].kind = kind, ![c].arg = arg,
                              ![c].pc = Handler(kind)]
    /\ UNCHANGED <<HistoryMutex, cbMutex, configLock, store, lists>>
    /\ UNCHANGED <<cbState, index, ghost, RequestHistory>>
    /\ UNCHANGED lockFrame

\* checkCircuitBreaker: s.CBState.Mutex.Lock()
CheckLock(c) ==
    /\ calls[c].pc = "check"
    /\ Free(cbMutex)
    /\ cbMutex' = c
    /\ calls' = [calls EXCEPT ![c].pc = "checking", ![c].snap = cbState]
    /\ UNCHANGED <<HistoryMutex, configLock, store, lists>>
    /\ UNCHANGED <<cbState, index, ghost, RequestHistory>>
    /\ UNCHANGED lockFrame

\* checkCircuitBreaker's body and deferred Unlock; 503 for a refused
\* request, the response at the cursor for an admitted one
CheckUnlock(c) ==
    /\ calls[c].pc = "checking"
    /\ LET k == checkCircuitBreaker(calls[c].snap, scenario.CircuitBreaker, now)
           resp == scenario.Responses[index + 1]
       IN /\ cbState' = k.cb
          /\ IF k.allowed
             THEN /\ index' = NextIdx(index, Len(scenario.Responses))
                  /\ calls' = [calls EXCEPT ![c].pc = "update",
                                            ![c].snap = NoCall.snap,
                                            ![c].success = ~IsFailure(resp.Status),
                                            ![c].Status = resp.Status]
             ELSE /\ index' = index
                  /\ calls' = [calls EXCEPT ![c].pc = "log",
                                            ![c].snap = NoCall.snap,
                                            ![c].Status = StatusServiceUnavailable]
    /\ cbMutex' = Unlock(c)
    /\ UNCHANGED <<HistoryMutex, configLock, store, lists>>
    /\ UNCHANGED <<ghost, RequestHistory>>
    /\ UNCHANGED lockFrame

\* updateCircuitBreaker: s.CBState.Mutex.Lock(), and the state it finds
UpdateLock(c) ==
    /\ calls[c].pc = "update"
    /\ Free(cbMutex)
    /\ cbMutex' = c
    /\ calls' = [calls EXCEPT ![c].pc = "updating", ![c].snap = cbState]
    /\ UNCHANGED <<HistoryMutex, configLock, store, lists>>
    /\ UNCHANGED <<cbState, index, ghost, RequestHistory>>
    /\ UNCHANGED lockFrame

\* updateCircuitBreaker's body and deferred Unlock
UpdateUnlock(c) ==
    /\ calls[c].pc = "updating"
    /\ cbState' = updateCircuitBreaker(calls[c].snap, scenario.CircuitBreaker,
                                       calls[c].success, now)
    /\ ghost' = GhostAfterUpdate(ghost, calls[c].snap, calls[c].success, now)
    /\ cbMutex' = Unlock(c)
    /\ calls' = [calls EXCEPT ![c].pc = "log", ![c].snap = NoCall.snap]
    /\ UNCHANGED <<HistoryMutex, configLock, store, lists>>
    /\ UNCHANGED <<index, RequestHistory>>
    /\ UNCHANGED lockFrame

\* config.AddScenario: configLock.Lock(), scenarios.Load(key)
AddLock(c) ==
    /\ calls[c].pc = "add"
    /\ Free(configLock)
    /\ configLock' = c
    /\ calls' = [calls EXCEPT ![c].pc = "adding",
                              ![c].old = IF Key(PB42, "GET") \in DOMAIN store
                                         THEN store[Key(PB42, "GET")] ELSE 0]
    /\ UNCHANGED <<HistoryMutex, cbMutex, store, lists>>
    /\ UNCHANGED <<cbState, index, ghost, RequestHistory>>
    /\ UNCHANGED lockFrame

\* addScenarioLocked's Store, the deferred configLock.Unlock() and the 200
AddUnlock(c) ==
    /\ calls[c].pc = "adding"
    /\ lists' = CopyOnWrite(lists, calls[c].old,
                            Pointer(<<c, 1>>, NewScenario(PB42, "GET", NoMatches,
                                                          <<R200>>, Unarmed)))
    /\ store' = StoreKey(store, Key(PB42, "GET"), Len(lists'))
    /\ configLock' = Unlock(c)
    /\ calls' = [calls EXCEPT ![c].pc = "log", ![c].old = 0, ![c].Status = StatusOK]
    /\ UNCHANGED <<HistoryMutex, cbMutex>>
    /\ UNCHANGED <<cbState, index, ghost, RequestHistory>>
    /\ UNCHANGED lockFrame

\* handleResetHistory: historyMutex.Lock()
ResetLock(c) ==
    /\ calls[c].pc = "reset"
    /\ Free(HistoryMutex)
    /\ HistoryMutex' = c
    /\ calls' = [calls EXCEPT ![c].pc = "resetting"]
    /\ UNCHANGED <<cbMutex, configLock, store, lists>>
    /\ UNCHANGED <<cbState, index, ghost, RequestHistory>>
    /\ UNCHANGED lockFrame

\* handleResetHistory: the truncation, the 200 and the deferred Unlock
ResetUnlock(c) ==
    /\ calls[c].pc = "resetting"
    /\ RequestHistory' = Cleared(RequestHistory)
    /\ HistoryMutex' = Unlock(c)
    /\ calls' = [calls EXCEPT ![c].pc = "log", ![c].Status = StatusOK]
    /\ UNCHANGED <<cbMutex, configLock, store, lists>>
    /\ UNCHANGED <<cbState, index, ghost>>
    /\ UNCHANGED lockFrame

\* handleReplay: the body is decoded, 400 when that fails
ReplayDecode(c) ==
    /\ calls[c].pc = "decode"
    /\ calls' = [calls EXCEPT
                   ![c].pc = IF calls[c].arg.parses THEN "search" ELSE "log",
                   ![c].Status = IF calls[c].arg.parses THEN 0 ELSE StatusBadRequest]
    /\ UNCHANGED <<HistoryMutex, cbMutex, configLock, store, lists>>
    /\ UNCHANGED <<cbState, index, ghost, RequestHistory>>
    /\ UNCHANGED lockFrame

\* handleReplay: historyMutex.Lock()
ReplayLock(c) ==
    /\ calls[c].pc = "search"
    /\ Free(HistoryMutex)
    /\ HistoryMutex' = c
    /\ calls' = [calls EXCEPT ![c].pc = "searching"]
    /\ UNCHANGED <<cbMutex, configLock, store, lists>>
    /\ UNCHANGED <<cbState, index, ghost, RequestHistory>>
    /\ UNCHANGED lockFrame

\* handleReplay: the search, historyMutex.Unlock(), 404 when no record has
\* the id
ReplayUnlock(c) ==
    /\ calls[c].pc = "searching"
    /\ HistoryMutex' = UnlockAfterSearch(c)
    /\ calls' = [calls EXCEPT
                   ![c].pc = IF Found(RequestHistory, calls[c].arg.id)
                             THEN "send" ELSE "log",
                   ![c].record = PathFound(RequestHistory, calls[c].arg.id),
                   ![c].Status = IF Found(RequestHistory, calls[c].arg.id)
                                 THEN 0 ELSE StatusNotFound]
    /\ UNCHANGED <<cbMutex, configLock, store, lists>>
    /\ UNCHANGED <<cbState, index, ghost, RequestHistory>>
    /\ UNCHANGED lockFrame

\* handleReplay: http.NewRequest (500 when it fails), then client.Do: 502
\* when the transport fails, the upstream's status otherwise
ReplaySend(c) ==
    /\ calls[c].pc = "send"
    /\ \E o \in ReplayOutcomes : \E st \in {StatusOK, StatusNotFound} :
         calls' = [calls EXCEPT
                     ![c].pc = "log",
                     ![c].record = "",
                     ![c].upstream = IF o = "invalid" THEN "none" ELSE o,
                     ![c].Status = CASE o = "invalid" -> StatusInternalServerError
                                     [] o = "failed" -> StatusBadGateway
                                     [] o = "answered" -> st]
    /\ UNCHANGED <<HistoryMutex, cbMutex, configLock, store, lists>>
    /\ UNCHANGED <<cbState, index, ghost, RequestHistory>>
    /\ UNCHANGED lockFrame

\* loggingMiddleware after the handler: historyMutex.Lock()
LogLock(c) ==
    /\ calls[c].pc = "log"
    /\ Free(HistoryMutex)
    /\ HistoryMutex' = c
    /\ calls' = [calls EXCEPT ![c].pc = "logging"]
    /\ UNCHANGED <<cbMutex, configLock, store, lists>>
    /\ UNCHANGED <<cbState, index, ghost, RequestHistory>>
    /\ UNCHANGED lockFrame

\* handleReplay with this server as the target: client.Do sends the recorded
\* request (method, path, body and headers of the record) to the server
\* itself, which serves it as request k like any other, and waits for the
\* response; the body of a recorded /replay is not kept in the record of the
\* model, so it is any of the bodies
ReplaySelf(c) ==
    /\ calls[c].pc = "send"
    /\ \E k \in 1..MaxCalls :
         /\ calls[k].pc = "new"
         /\ \A b \in 1..(k - 1) : calls[b].pc # "new"
         /\ \E arg \in IF calls[c].record = "replay" THEN ReplayBodies
                        ELSE {NoCall.arg} :
              calls' = [calls EXCEPT
                          ![c].pc = "await", ![c].record = "", ![c].child = k,
                          ![k].kind = calls[c].record, ![k].arg = arg,
                          ![k].pc = Handler(calls[c].record)]
    /\ UNCHANGED <<HistoryMutex, cbMutex, configLock, store, lists>>
    /\ UNCHANGED <<cbState, index, ghost, RequestHistory>>
    /\ UNCHANGED lockFrame

\* loggingMiddleware: the record is appended, historyMutex.Unlock(); the
\* middleware chain returns and the response goes out: a /replay waiting for
\* this request gets its status and answers with it
LogUnlock(c) ==
    /\ calls[c].pc = "logging"
    /\ RequestHistory' = Appended(RequestHistory,
                                  [ID |-> c, Path |-> calls[c].kind,
                                   StatusCode |-> calls[c].Status],
                                  1)
    /\ HistoryMutex' = Unlock(c)
    /\ calls' = [p \in 1..MaxCalls |->
                   IF p = c THEN [NoCall EXCEPT !.pc = "done"]
                   ELSE IF calls[p].pc = "await" /\ calls[p].child = c
                   THEN [calls[p] EXCEPT !.pc = "log", !.child = 0,
                                         !.upstream = "answered",
                                         !.Status = calls[c].Status]
                   ELSE calls[p]]
    /\ UNCHANGED <<cbMutex, configLock, store, lists>>
    /\ UNCHANGED <<cbState, index, ghost>>
    /\ UNCHANGED lockFrame

LockInit ==
    /\ scenario = LockScenario
    /\ cbState = NewCBState
    /\ index = 0
    /\ now = 0
    /\ inflight = EmptyBag
    /\ faults = [delay |-> 0, http_error |-> 0]
    /\ started = 0
    /\ lastReply = NewRequest
    /\ ghost = NewGhost
    /\ RouterIdle
    /\ PipelineIdle
    /\ RestIdle

LockNext ==
    \/ \E c \in 1..MaxCalls :
         \/ \E kind \in {"scenario", "add", "reset"} : Begin(c, kind, NoCall.arg)
         \/ \E arg \in ReplayBodies : Begin(c, "replay", arg)
    \/ \E c \in 1..MaxCalls : CheckLock(c)
    \/ \E c \in 1..MaxCalls : CheckUnlock(c)
    \/ \E c \in 1..MaxCalls : UpdateLock(c)
    \/ \E c \in 1..MaxCalls : UpdateUnlock(c)
    \/ \E c \in 1..MaxCalls : AddLock(c)
    \/ \E c \in 1..MaxCalls : AddUnlock(c)
    \/ \E c \in 1..MaxCalls : ResetLock(c)
    \/ \E c \in 1..MaxCalls : ResetUnlock(c)
    \/ \E c \in 1..MaxCalls : ReplayDecode(c)
    \/ \E c \in 1..MaxCalls : ReplayLock(c)
    \/ \E c \in 1..MaxCalls : ReplayUnlock(c)
    \/ \E c \in 1..MaxCalls : ReplaySend(c)
    \/ \E c \in 1..MaxCalls : LogLock(c)
    \/ \E c \in 1..MaxCalls : LogUnlock(c)

LockSpec == LockInit /\ [][LockNext]_vars

\* ------------------------------------------------- properties of the locks
\* C28: POST /replay answers 400 when its body does not parse and 404 when
\* the body parses and no record in the history buffer has the id, in both
\* cases without issuing an upstream request; an upstream request is only
\* issued after a record was found, and when its transport fails the answer
\* is 502.
C28_ReplayErrors ==
    [][ \A c \in 1..MaxCalls :
          calls[c].kind = "replay" =>
            /\ calls'[c] # calls[c] /\ calls[c].pc = "decode"
                 /\ ~calls[c].arg.parses =>
                 /\ calls'[c].Status = StatusBadRequest
                 /\ calls'[c].pc = "log" /\ calls'[c].upstream = "none"
            /\ calls'[c] # calls[c] /\ calls[c].pc = "searching"
                 /\ ~(\E i \in 1..Len(RequestHistory) :
                        RequestHistory[i].ID = calls[c].arg.id) =>
                 /\ calls'[c].Status = StatusNotFound
                 /\ calls'[c].pc = "log" /\ calls'[c].upstream = "none"
            /\ calls[c].pc \in {"log", "logging"} =>
                 calls'[c].pc = "done" \/ calls'[c].upstream = calls[c].upstream
            /\ calls[c].upstream = "none" /\ calls'[c].upstream # "none" =>
                 calls[c].pc = "send"
            /\ calls'[c].pc = "send" /\ calls[c].pc # "send" =>
                 /\ calls[c].arg.parses
                 /\ \E i \in 1..Len(RequestHistory) :
                      RequestHistory[i].ID = calls[c].arg.id
            /\ calls'[c].upstream = "failed" => calls'[c].Status = StatusBadGateway
      ]_vars

\* the record of request 1 is in the buffer; a replay of it failed in
\* transport and is answered 502, and a replay of an unknown id is answered
\* 404 with no upstream request
C28_Witness ==
    /\ RequestHistory # <<>> /\ RequestHistory[1].ID = 1
    /\ \E c \in 1..MaxCalls :
         /\ calls[c].kind = "replay" /\ calls[c].arg.id = 1
         /\ calls[c].upstream = "failed" /\ calls[c].Status = StatusBadGateway
    /\ \E c \in 1..MaxCalls :
         /\ calls[c].kind = "replay" /\ calls[c].arg.parses /\ calls[c].arg.id = 0
         /\ calls[c].upstream = "none" /\ calls[c].Status = StatusNotFound

\* C29: the failures recorded by requests admitted while the breaker is
\* closed are all counted, in every interleaving: while the breaker is closed
\* its failure count is the number of failures recorded since the last
\* recorded success, and when that number reaches FailureThreshold the
\* breaker is open once the update that recorded the last of them returns.
C29_NoOutcomeLost ==
    /\ cbState.State = "closed" =>
         /\ cbState.Failures = ghost.streak
         /\ ghost.streak < scenario.CircuitBreaker.FailureThreshold
    /\ ghost.streak >= scenario.CircuitBreaker.FailureThreshold =>
         cbState.State = "open"

\* three requests were admitted while the breaker was closed; the two that
\* failed have recorded their failures and the breaker is open, the third
\* has yet to record its success
C29_Witness ==
    /\ cbState.State = "open"
    /\ ghost.streak = scenario.CircuitBreaker.FailureThreshold
    /\ \E c \in 1..MaxCalls : calls[c].pc = "update" /\ calls[c].success

\* the locks request c holds
Held(c) ==
    {l \in {"config", "history", "breaker"} :
       \/ l = "config" /\ configLock = c
       \/ l = "history" /\ HistoryMutex = c
       \/ l = "breaker" /\ cbMutex = c}

\* C30: no request holds two of the registry lock, the history mutex and the
\* breaker mutex at the same time.
C30_OneLockAtATime == \A c \in 1..MaxCalls : Cardinality(Held(c)) <= 1

\* the three locks are held, by three requests
C30_Witness ==
    /\ configLock # 0 /\ HistoryMutex # 0 /\ cbMutex # 0
    /\ \A c \in 1..MaxCalls : Cardinality(Held(c)) = 1

\* ------------------------------------------------------------------------
\* More properties of the scenario engine (Spec).  The fault counters of the
\* model are those labelled with the handler's path template, which for the
\* one scenario of Spec is the scenario's path.

\* C31: a handler that applies a response with Delay > 0 adds exactly one to
\* the delay fault counter, and no other step changes that counter; a request
\* refused by the breaker, one that matched no scenario and one that falls
\* through the probability gate change no fault counter; after a single
\* request to a scenario whose first response is a delayed 200 the delay
\* counter is 1 and the http_error counter 0.
C31_DelayFaultCounted ==
    /\ []((/\ started = 1
           /\ inflight = EmptyBag
           /\ lastReply.applied
           /\ scenario.Responses[1] = R200Delay)
          => faults = [delay |-> 1, http_error |-> 0])
    /\ [][/\ \A r \in Requests : \A r2 \in Results' :
               Step(r, r2)
               => /\ faults'.delay =
                        IF r.pc = "store" /\ ~r2.fellThrough /\ Selected(r2).Delay > 0
                        THEN faults.delay + 1 ELSE faults.delay
                  /\ (r2.shortCircuited \/ r2.fellThrough) => faults' = faults
          /\ started' # started => faults' = faults
         ]_vars

C31_Witness ==
    /\ started = 1
    /\ inflight = EmptyBag
    /\ lastReply.applied
    /\ lastReply.idx = 0
    /\ scenario.Responses[1].Delay > 0
    /\ faults = [delay |-> 1, http_error |-> 0]

\* The response selector on scenarios whose first response is behind the
\* probability gate and delayed, or which have three responses, with no
\* breaker or with one that trips at the first failure: the handler of Spec,
\* started on those scenarios, with the history of admissions kept.
R500HalfDelay == Resp(500, 1, 5, "plain")

SelectorLists == { <<R500HalfDelay, R200>>, <<R500, R404, R200>> }

SelectorInit ==
    /\ scenario \in [Responses : SelectorLists, CircuitBreaker : {Unarmed, TripsAtOnce}]
    /\ cbState = NewCBState
    /\ index = 0
    /\ now = 0
    /\ inflight = EmptyBag
    /\ faults = [delay |-> 0, http_error |-> 0]
    /\ started = 0
    /\ lastReply = NewRequest
    /\ ghost = [NewGhost EXCEPT !.periods = TRUE]
    /\ RouterIdle
    /\ PipelineIdle
    /\ RestIdle

SelectorSpec == SelectorInit /\ [][Next]_vars

C33_EveryTemplateTried ==
    [][LET r == lastRouted'.req IN
         (Routed /\ Key(r.Path, r.Method) \notin DOMAIN scenarios)
         => \A s \in AllScenarios :
              (/\ ContainsBrace(s.Path)
               /\ s.Method = r.Method
               /\ matchPath(s.Path, r.Path).matches)
              => /\ lastRouted'.key # <<>>
                 /\ lastRouted'.status # StatusNotFound
      ]_vars

\* C38: a request changes the cursor and the breaker state of no scenario but
\* the one that serves it, which is the first scenario of its key whose
\* predicates hold of the request; the other scenarios of that key and those
\* of the other keys stay as they are, and so does every scenario when the
\* request is served by none.
C38_OtherScenariosUntouched ==
    [][LET r == lastRouted'.req IN
         Routed
         => /\ DOMAIN scenarios' = DOMAIN scenarios
            /\ \A k \in DOMAIN scenarios :
                 /\ Len(scenarios'[k]) = Len(scenarios[k])
                 /\ \A i \in 1..Len(scenarios[k]) :
                      (\/ k # lastRouted'.key
                       \/ ~Holds(scenarios[k][i].Matches, r)
                       \/ \E j \in 1..(i - 1) : Holds(scenarios[k][j].Matches, r))
                      => /\ scenarios'[k][i].Index = scenarios[k][i].Index
                         /\ scenarios'[k][i].CBState = scenarios[k][i].CBState
      ]_vars

\* the second of two scenarios of one key served a request and moved its
\* cursor; the cursor of the first is where it was
C38_Witness ==
    /\ lastRouted.pos = 2
    /\ Len(scenarios[lastRouted.key]) = 2
    /\ scenarios[lastRouted.key][2].Index = 1
    /\ scenarios[lastRouted.key][1].Index = 0


\* ------------------------------------------------------------------------
\* More properties of the registry (RegistrySpec).

\* C34: the cursor of every scenario in the registry is an index of its
\* response list: 0 <= Index < len(Responses).
C34_CursorInRange ==
    \A s \in Registered : 0 <= s.Index /\ s.Index < Len(s.Responses)

\* C35: the breaker of every registered scenario that is armed is closed,
\* open or half-open, has 0 <= Failures <= FailureThreshold, and is open or
\* half-open only with Failures >= FailureThreshold.
C35_BreakerStateConsistent ==
    \A s \in Registered :
        s.CircuitBreaker.FailureThreshold > 0
        => /\ s.CBState.State \in {"closed", "open", "half-open"}
           /\ 0 <= s.CBState.Failures
           /\ s.CBState.Failures <= s.CircuitBreaker.FailureThreshold
           /\ s.CBState.State \in {"open", "half-open"}
                => s.CBState.Failures >= s.CircuitBreaker.FailureThreshold

\* ------------------------------------------------------------------------
\* More properties of the circuit breaker (Spec).

\* C36: when the breaker goes from half-open to closed, at least
\* SuccessThreshold successes were reported to it since it last became
\* half-open.
C36_ClosesAfterEnoughSuccesses ==
    [][(cbState.State = "half-open" /\ cbState'.State = "closed")
       => ghost'.hoStreak >= SuccessThreshold
      ]_vars

\* C37: an outcome is reported to the breaker in the period in which its
\* request was admitted: no handler that passed the check of the closed
\* breaker reports its outcome to the half-open breaker.
C37_OutcomeInAdmissionPeriod ==
    [][\A r \in At("update") \cup At("fallupd") : \A r2 \in Results' :
         (Step(r, r2) /\ Armed /\ r.admitted = "closed")
         => cbState.State # "half-open"
      ]_vars

\* ------------------------------------------------------------------------
\* POST /replay to the server itself.  The requests are POST /replay and
\* POST /api/control/reset-history, from clients or replayed by the server to
\* itself.  The handlers do not all stop while one of them can take a step:
\* each request runs in a goroutine of its own, and a goroutine waiting for a
\* mutex gets it once it stays free.
ReplayNext ==
    \/ \E c \in 1..MaxCalls :
         \/ Begin(c, "reset", NoCall.arg)
         \/ \E arg \in ReplayBodies : Begin(c, "replay", arg)
    \/ \E c \in 1..MaxCalls : ResetLock(c)
    \/ \E c \in 1..MaxCalls : ResetUnlock(c)
    \/ \E c \in 1..MaxCalls : ReplayDecode(c)
    \/ \E c \in 1..MaxCalls : ReplayLock(c)
    \/ \E c \in 1..MaxCalls : ReplayUnlock(c)
    \/ \E c \in 1..MaxCalls : ReplaySend(c)
    \/ \E c \in 1..MaxCalls : ReplaySelf(c)
    \/ \E c \in 1..MaxCalls : LogLock(c)
    \/ \E c \in 1..MaxCalls : LogUnlock(c)

\* the steps of the handler of request c
Proceed(c) ==
    \/ ResetLock(c) \/ ResetUnlock(c)
    \/ ReplayDecode(c) \/ ReplayLock(c) \/ ReplayUnlock(c)
    \/ ReplaySend(c) \/ ReplaySelf(c)
    \/ LogLock(c) \/ LogUnlock(c)

ReplaySpec ==
    /\ LockInit
    /\ [][ReplayNext]_vars
    /\ WF_vars(\E c \in 1..MaxCalls : Proceed(c))

\* C39: POST /replay does not hold the history mutex once it has searched the
\* history, while it sends the upstream request and waits for the response;
\* a replay to the server itself is answered when the request it sent has
\* appended its record, and every such replay is eventually completed.
C39_SelfReplayCompletes ==
    /\ [](\A c \in 1..MaxCalls :
            calls[c].pc \in {"send", "await"} => HistoryMutex # c)
    /\ [][\A c \in 1..MaxCalls :
            (calls[c].pc = "await" /\ calls'[c].pc # "await")
            => /\ LogUnlock(calls[c].child)
               /\ RequestHistory'[Len(RequestHistory')].ID = calls[c].child
         ]_vars
    /\ \A c \in 1..MaxCalls :
         (calls[c].pc = "await") ~> (calls[c].pc = "done")

\* the request a replay sent to the server itself holds the history mutex,
\* about to append its record, while the replay waits for the response
C39_Witness ==
    \E c \in 1..MaxCalls :
        /\ calls[c].pc = "await"
        /\ calls[c].child # 0
        /\ calls[calls[c].child].pc = "logging"
        /\ HistoryMutex = calls[c].child

====
